---- MODULE Spec2Model ----
(***************************************************************************)
(* Smart Sensor Hub: cooperative task manager (app_task_manager.c), the    *)
(* tasks of app_main.c, the power manager (power_manager.c), the logger     *)
(* (log.c) and the command line interface (cli.c).                         *)
(*                                                                         *)
(* uint32_t values are pairs <<hi, lo>> of 16-bit halves, so that the      *)
(* arithmetic of the code keeps its 32-bit width.                          *)
(***************************************************************************)
EXTENDS Integers, Sequences, FiniteSets, TLC

\* ---------------------------------------------------------------- bounds
\* number of clock advances explored
MaxAdvances == 2
\* number of successful registrations explored
MaxRegs == 2
\* number of scheduler passes explored
MaxPasses == 2
\* idle cycles explored by direct PowerManager_Update calls
MaxIdleCycles == 3

\* ------------------------------------------------------- program constants
APP_MAX_TASKS == 8

NULL == "NULL"

\* what a call of a void function leaves as its return value
Void == <<"none", 0>>

\* ------------------------------------------------------ uint32_t arithmetic
W16 == 65536

U32 == (0 .. W16 - 1) \X (0 .. W16 - 1)

\* the uint32_t of a small natural number
U(n) == <<n \div W16, n % W16>>

\* 2^32 - n for a small n >= 1 (a reading shortly before the counter wraps)
UNeg(n) == <<W16 - 1, W16 - n>>

\* uint32_t addition: the tick counter wraps at 2^32
Add32(a, b) ==
    LET lo == a[2] + b[2]
        hi == a[1] + b[1] + (lo \div W16)
    IN  <<hi % W16, lo % W16>>

\* a mutant of Sub32: a subtraction that saturates at 0 instead of wrapping
Sub32_Saturating(a, b) ==
    IF a[1] < b[1] \/ (a[1] = b[1] /\ a[2] < b[2])
    THEN <<0, 0>>
    ELSE LET lo == a[2] - b[2]
             hi == a[1] - b[1] - (IF lo < 0 THEN 1 ELSE 0)
         IN  <<hi % W16, lo % W16>>

\* uint32_t subtraction, modulo 2^32
Sub32(a, b) ==
    LET lo == a[2] - b[2]
        hi == a[1] - b[1] - (IF lo < 0 THEN 1 ELSE 0)
    IN  <<hi % W16, lo % W16>>

\* uint32_t comparison a >= b
Ge32(a, b) == a[1] > b[1] \/ (a[1] = b[1] /\ a[2] >= b[2])

\* ---------------------------------------------------- power modes
POWER_MODE_ACTIVE == 0
POWER_MODE_IDLE == 1
POWER_MODE_SLEEP == 2
POWER_MODE_STOP == 3

PowerMode_t == {POWER_MODE_ACTIVE, POWER_MODE_IDLE, POWER_MODE_SLEEP, POWER_MODE_STOP}

\* ---------------------------------------------------- log levels
LOG_LEVEL_DEBUG == 0
LOG_LEVEL_INFO == 1
LOG_LEVEL_WARN == 2
LOG_LEVEL_ERROR == 3

LogLevel_t == {LOG_LEVEL_DEBUG, LOG_LEVEL_INFO, LOG_LEVEL_WARN, LOG_LEVEL_ERROR}

\* the UART handle main() passes to Log_Init and CLI_Init
huart2 == "huart2"

\* a mutant of s_enabled_init: logging starts enabled
s_enabled_init_on == TRUE

\* log.c, line 30: the static initialiser of s_enabled
s_enabled_init == FALSE

\* ---------------------------------------------------- sampling periods
SENSOR_PERIOD_ACTIVE_MS == U(1000)
SENSOR_PERIOD_IDLE_MS == U(5000)
SENSOR_PERIOD_SLEEP_MS == U(30000)
SENSOR_PERIOD_STOP_MS == U(0)

\* ---------------------------------------------------- bytes
\* cli.c line 25: the size of the line buffer
CLI_MAX_LINE_LENGTH == 64

\* cli.c line 160: the size of the buffer of CLI_Print
CLI_PRINT_BUFFER == 128

\* the terminator '\0'
NUL == "\\0"

\* the characters of the bytes 32 (' ') to 126 ('~'), in order; "<96>" stands
\* for the grave accent, which a string of this notation cannot hold
Printable ==
    <<" ", "!", "\"", "#", "$", "%", "&", "'", "(", ")", "*", "+", ",", "-", ".", "/",
      "0", "1", "2", "3", "4", "5", "6", "7", "8", "9", ":", ";", "<", "=", ">", "?",
      "@", "A", "B", "C", "D", "E", "F", "G", "H", "I", "J", "K", "L", "M", "N", "O",
      "P", "Q", "R", "S", "T", "U", "V", "W", "X", "Y", "Z", "[", "\\", "]", "^", "_",
      "<96>", "a", "b", "c", "d", "e", "f", "g", "h", "i", "j", "k", "l", "m", "n", "o",
      "p", "q", "r", "s", "t", "u", "v", "w", "x", "y", "z", "{", "|", "}", "~">>

\* the character of a printable byte, (char)ch
Chr(b) == Printable[b - 31]

\* the byte of a printable character
Ord(c) == 31 + CHOOSE k \in 1 .. Len(Printable) : Printable[k] = c

\* the bytes CLI_Process tests for by value
CR == 13
LF == 10
BS == 8
DEL == 127

\* ---------------------------------------------------- C strings
\* A C string is the sequence of its characters.
Upper == <<"A", "B", "C", "D", "E", "F", "G", "H", "I", "J", "K", "L", "M", "N", "O", "P", "Q", "R", "S", "T", "U", "V", "W", "X", "Y", "Z">>

Lower == <<"a", "b", "c", "d", "e", "f", "g", "h", "i", "j", "k", "l", "m", "n", "o", "p", "q", "r", "s", "t", "u", "v", "w", "x", "y", "z">>

IsSpace(c) == c = " " \/ c = "\t"

\* CLI_ToLower, lines 203-209: 'A'..'Z' become 'a'..'z', in place
LowerOf == [c \in {Upper[k] : k \in 1 .. Len(Upper)} |->
               Lower[CHOOSE k \in 1 .. Len(Upper) : Upper[k] = c]]

LowerChar(c) == IF c \in DOMAIN LowerOf THEN LowerOf[c] ELSE c

\* a mutant of CLI_ToLower: the line keeps its letter case
CLI_ToLower_Keep(str) == str

CLI_ToLower(str) == [k \in 1 .. Len(str) |-> LowerChar(str[k])]

\* CLI_Trim, lines 219-223: skip leading blanks and tabs
RECURSIVE TrimStart(_)
TrimStart(str) ==
    IF Len(str) > 0 /\ IsSpace(str[1]) THEN TrimStart(Tail(str)) ELSE str

\* CLI_Trim, lines 225-231: cut trailing blanks and tabs
RECURSIVE TrimEnd(_)
TrimEnd(str) ==
    IF Len(str) > 0 /\ IsSpace(str[Len(str)])
    THEN TrimEnd(SubSeq(str, 1, Len(str) - 1))
    ELSE str

CLI_Trim(str) == TrimEnd(TrimStart(str))

\* a mutant of strncmp0: the last character of the prefix is not compared
strncmp0_Short(str, prefix) ==
    Len(str) >= Len(prefix) - 1 /\ SubSeq(str, 1, Len(prefix) - 1) = SubSeq(prefix, 1, Len(prefix) - 1)

\* strncmp(str, prefix, strlen(prefix)) == 0
strncmp0(str, prefix) ==
    Len(str) >= Len(prefix) /\ SubSeq(str, 1, Len(prefix)) = prefix

\* str + n: the string after its first n characters
After(str, n) == SubSeq(str, n + 1, Len(str))

\* the literals of CLI_HandleLine
STR_help == <<"h", "e", "l", "p">>
STR_log_ == <<"l", "o", "g", " ">>
STR_off == <<"o", "f", "f">>
STR_error == <<"e", "r", "r", "o", "r">>
STR_warn == <<"w", "a", "r", "n">>
STR_info == <<"i", "n", "f", "o">>
STR_debug == <<"d", "e", "b", "u", "g">>
STR_pause == <<"p", "a", "u", "s", "e">>
STR_resume == <<"r", "e", "s", "u", "m", "e">>
STR_pmode_ == <<"p", "m", "o", "d", "e", " ">>
STR_active == <<"a", "c", "t", "i", "v", "e">>
STR_idle == <<"i", "d", "l", "e">>
STR_sleep == <<"s", "l", "e", "e", "p">>
STR_stop == <<"s", "t", "o", "p">>
STR_status == <<"s", "t", "a", "t", "u", "s">>

\* ---------------------------------------------------- command lines
\* Lines a user submits: CLI_Process hands over a line of 1 to 63 printable
\* characters (bytes 32 to 126), as typed.
L_help == <<"h", "e", "l", "p">>
L_status == <<"s", "t", "a", "t", "u", "s">>
L_log_off == <<"l", "o", "g", " ", "o", "f", "f">>
L_log_error == <<"l", "o", "g", " ", "e", "r", "r", "o", "r">>
L_LOG_WARN_UP == <<"L", "o", "g", " ", "W", "a", "r", "n">>
L_log_info == <<"l", "o", "g", " ", "i", "n", "f", "o">>
L_LOG_DEBUG_UP == <<"L", "O", "G", " ", "D", "E", "B", "U", "G">>
L_log_pause == <<"l", "o", "g", " ", "p", "a", "u", "s", "e">>
L_LOG_PAUSE_SP == <<" ", " ", "L", "o", "g", " ", " ", " ", "P", "a", "u", "s", "e", " ">>
L_log_resume == <<"l", "o", "g", " ", "r", "e", "s", "u", "m", "e">>
L_log_bogus == <<"l", "o", "g", " ", "b", "o", "g", "u", "s">>
L_log_bare == <<"l", "o", "g">>
L_pmode_active == <<"p", "m", "o", "d", "e", " ", "a", "c", "t", "i", "v", "e">>
L_pmode_idle == <<"p", "m", "o", "d", "e", " ", "i", "d", "l", "e">>
L_PMODE_SLEEP_UP == <<"P", "M", "O", "D", "E", " ", "S", "L", "E", "E", "P">>
L_pmode_stop == <<"p", "m", "o", "d", "e", " ", " ", "s", "t", "o", "p">>
L_pmode_fast == <<"p", "m", "o", "d", "e", " ", "f", "a", "s", "t">>
L_pmode_empty == <<"p", "m", "o", "d", "e", " ">>
L_frobnicate == <<"f", "r", "o", "b", "n", "i", "c", "a", "t", "e">>
L_blank == <<" ">>

Lines ==
    {L_help, L_status, L_log_off, L_log_error,
     L_LOG_WARN_UP, L_log_info, L_LOG_DEBUG_UP, L_log_pause,
     L_LOG_PAUSE_SP, L_log_resume, L_log_bogus, L_log_bare,
     L_pmode_active, L_pmode_idle, L_PMODE_SLEEP_UP, L_pmode_stop,
     L_pmode_fast, L_pmode_empty, L_frobnicate, L_blank}

\* ---------------------------------------------------- keystrokes
\* the bytes of a string of printable characters
Bytes(str) == [k \in 1 .. Len(str) |-> Ord(str[k])]

\* n blanks
Blanks(n) == [k \in 1 .. n |-> " "]

\* What a terminal sends for one line, Enter included: the bytes
\* HAL_UART_Receive hands to CLI_Process, one at a time.
K_pmode_idle == Bytes(L_pmode_idle) \o <<CR>>
K_pmode_active_crlf == Bytes(L_pmode_active) \o <<CR, LF>>
K_PMODE_IDLE_SP ==
    Bytes(<<" ", " ", "P", "M", "o", "d", "e", " ", "I", "d", "l", "e", " ">>) \o <<CR>>
K_log_info == Bytes(L_log_info) \o <<LF>>
K_log_off == Bytes(L_log_off) \o <<CR>>
K_frobnicate == Bytes(L_frobnicate) \o <<CR>>
K_blank == Bytes(Blanks(2)) \o <<CR>>
K_enter == <<CR>>
K_newline == <<LF>>
\* "stax", backspace, "tuz", delete, "s": the line is "status"
K_status_edited ==
    Bytes(<<"s", "t", "a", "x">>) \o <<BS>> \o Bytes(<<"t", "u", "z">>) \o <<DEL>> \o
    Bytes(<<"s">>) \o <<CR>>
K_erase_empty == <<BS, DEL, CR>>
\* control bytes and bytes above 126 between the letters of "help"
K_help_control ==
    <<27, 0, 31, 128, 255>> \o Bytes(<<"h">>) \o <<7>> \o Bytes(<<"e", "l", "p">>) \o <<CR>>
\* the first and the last printable byte
K_tilde == <<126, 32, CR>>
\* 59 blanks, "help" and two more letters: 65 printable bytes
K_help_overlong ==
    Bytes(Blanks(59) \o STR_help \o <<"z", "z">>) \o <<CR>>

\* two lines sent at once
K_debug_idle == Bytes(L_LOG_DEBUG_UP) \o <<CR>> \o Bytes(L_pmode_idle) \o <<CR>>
K_log_pause == Bytes(L_log_pause) \o <<CR>>
K_debug_pause == Bytes(L_LOG_DEBUG_UP) \o <<CR>> \o Bytes(L_log_pause) \o <<CR>>
K_log_resume == Bytes(L_log_resume) \o <<CR>>
K_status == Bytes(L_status) \o <<CR>>

K_pmode_stop == Bytes(L_pmode_stop) \o <<CR>>

\* what the terminal sends to the main loop that runs for ever
LoopKeystrokes == {K_pmode_idle, K_pmode_active_crlf, K_pmode_stop}

\* what the terminal of the running application sends
AppKeystrokes ==
    {K_debug_idle, K_log_pause, K_debug_pause, K_log_resume, K_log_off, K_status,
     K_pmode_active_crlf}

Keystrokes ==
    {K_pmode_idle, K_pmode_active_crlf, K_PMODE_IDLE_SP, K_log_info, K_log_off,
     K_frobnicate, K_blank, K_enter, K_newline, K_status_edited, K_erase_empty,
     K_help_control, K_tilde, K_help_overlong}

\* ---------------------------------------------------- task descriptors
\* s_heartbeatTask and s_powerTask are the descriptors of app_main.c; the
\* other two are descriptors an application may equally hand to the task
\* manager: one with period 0 and one whose function pointer is NULL.
Descs == {"s_heartbeatTask", "s_powerTask", "t_zeroPeriod", "t_nullFunction"}

\* these and the other two descriptors of app_main.c, lines 89-95 and 114-120
Descriptors == Descs \cup {"s_sensorTask", "s_cliTask"}

function(d) ==
    CASE d = "s_heartbeatTask" -> "App_TaskHeartbeat"
      [] d = "s_sensorTask"    -> "App_TaskSensorSample"
      [] d = "s_powerTask"     -> "App_TaskPowerManager"
      [] d = "s_cliTask"       -> "App_TaskCli"
      [] d = "t_zeroPeriod"    -> "App_TaskHeartbeat"
      [] d = "t_nullFunction"  -> NULL

period_ms(d) ==
    CASE d = "s_heartbeatTask" -> U(500)
      [] d = "s_sensorTask"    -> U(1000)
      [] d = "s_powerTask"     -> U(500)
      [] d = "s_cliTask"       -> U(20)
      [] d = "t_zeroPeriod"    -> U(0)
      [] d = "t_nullFunction"  -> U(1000)

\* ---------------------------------------------------- clock
\* amounts by which the millisecond tick advances between two readings
Deltas == {U(499), U(500), UNeg(100)}

\* amounts by which the tick advances between two runs of the sampling task
SampleDeltas == {U(999), U(1000), U(4000), U(29000), UNeg(500)}

\* amounts by which the tick advances between two passes of a main loop
\* that runs for ever: 2^30 ms and 2^31 ms
CoarseDeltas == {<<16384, 0>>, <<32768, 0>>}

\* amounts by which the tick advances between two steps of the application
AppDeltas == {U(20), U(500), U(1000)}

\* amounts by which the tick advances when the main loop is held up for
\* more than a period of the 500 ms tasks
SkewDeltas == {U(499), U(500), U(1000), U(1250)}

VARIABLES
    tick,             \* HAL_GetTick(): the millisecond counter
    advances,         \* number of clock advances so far
    regs,             \* number of successful registrations so far
    passes,           \* number of scheduler passes begun so far
    s_tasks,          \* app_task_manager.c: the registry, slots 0..7
    s_taskCount,      \* app_task_manager.c: number of registered tasks
    lastRun_ms,       \* lastRun_ms of every descriptor
    pc,               \* "main", "run" (inside AppTaskManager_RunOnce), "call"
                      \* (between the stamp and the call of a task), "cli"
                      \* (inside CLI_Process called by App_TaskCli), "fault"
    now_ms,           \* RunOnce: the clock reading of the pass
    idx,              \* RunOnce: the loop index i
    led,              \* GPIOA pin 5, toggled by the heartbeat task
    s_currentMode,    \* power_manager.c
    s_requestedMode,  \* power_manager.c
    s_idleCycles,     \* power_manager.c
    ret,              \* the value returned by the last call (none for void)
    ran,              \* history: slots invoked in the current / last pass
    snap,             \* history: lastRun_ms of every descriptor at pass begin
    gap,              \* history: real ms from the lastRun reading to the pass reading
    age,              \* history: real ms since the reading held in lastRun_ms (registered tasks)
    passAge,          \* history: real ms since the reading of the pass in progress
    ticked,           \* history: the clock has advanced since the last pass read it
    runs,             \* history: invocations since the last registration (2 = more)
    sameReading,      \* history: the pass began with no clock advance since the previous pass began
    regLog,           \* history: descriptors registered successfully since Init
    runLog,           \* history: the passes of a first run, for comparison with a second run
    s_logUart,        \* log.c: the UART of the logger, NULL before Log_Init
    s_minLevel,       \* log.c: the minimum level
    s_enabled,        \* log.c: the enable flag
    s_cliUart,        \* cli.c: the UART of the CLI, NULL before CLI_Init
    s_logPaused,      \* cli.c: the pause flag
    s_prevLogEnabled, \* cli.c: the enable flag saved by log pause
    s_prevLogLevel,   \* cli.c: the level saved by log pause
    s_lineBuffer,     \* cli.c: the line buffer, indexed 0 .. CLI_MAX_LINE_LENGTH - 1
    s_lineIndex,      \* cli.c: the write index into the line buffer
    rx,               \* the bytes on their way to the UART receiver, in order
    lastSampleTick_ms, \* App_TaskSensorSample: static lastSampleTick_ms
    uart,             \* what the last call transmitted on the UART, in order
    reads,            \* history: sensorIF->read calls made by the last call
    call,             \* history: the last call into logger, CLI, power manager or sampling task
    configured,       \* history: a command or setter has been called since process start
    pausedCfg         \* history: <<enabled, level>> in effect when the pause in force was accepted

schedVars == <<s_tasks, s_taskCount, lastRun_ms, pc, now_ms, idx>>
powerVars == <<s_currentMode, s_requestedMode, s_idleCycles>>
histVars == <<ran, snap, gap, age, passAge, ticked, runs, sameReading, regLog, runLog>>
boundVars == <<advances, regs, passes>>
logVars == <<s_logUart, s_minLevel, s_enabled>>
lineVars == <<s_lineBuffer, s_lineIndex, rx>>
cliVars == <<s_cliUart, s_logPaused, s_prevLogEnabled, s_prevLogLevel, lineVars>>
sensVars == <<lastSampleTick_ms, reads>>
obsVars == <<call, configured, pausedCfg>>
ioVars == <<logVars, cliVars, sensVars, obsVars>>
vars == <<tick, boundVars, schedVars, led, powerVars, ret, histVars, ioVars, uart>>

\* memset(s_lineBuffer, 0, sizeof(s_lineBuffer))
LineCleared == [i \in 0 .. CLI_MAX_LINE_LENGTH - 1 |-> NUL]

\* no run is being recorded
NoRunLog == [phase |-> "off", same |-> TRUE, passes |-> <<>>]

\* no call yet
NoCall == <<"none">>

\* no pause in force
NoCfg == <<"none">>

\* no pause in force: the command just executed ended one, and was not log resume
CancelledCfg == <<"cancelled">>

\* ---------------------------------------------------- real elapsed time
\* A real duration is <<c, hi, lo>>: c = 1 stands for 2^32 ms or more.
AgeZero == <<0, 0, 0>>

AgeAdd(a, d) ==
    LET lo == a[3] + d[2]
        hi == a[2] + d[1] + (lo \div W16)
    IN  IF a[1] > 0 \/ hi >= W16 THEN <<1, 0, 0>> ELSE <<0, hi, lo % W16>>

\* the real duration a is at least p ms (p a uint32_t)
AgeGe(a, p) == a[1] > 0 \/ a[2] > p[1] \/ (a[2] = p[1] /\ a[3] >= p[2])

AgeBelowWrap(a) == a[1] = 0

\* ---------------------------------------------------- initial states
\* the static initialisers of app_task_manager.c, app_main.c, power_manager.c
InitCommon ==
    /\ tick = U(0)
    /\ advances = 0
    /\ regs = 0
    /\ passes = 0
    /\ lastRun_ms = [d \in Descriptors |-> U(0)]
    /\ pc = "main"
    /\ now_ms = U(0)
    /\ idx = 0
    /\ led = FALSE
    /\ s_currentMode = POWER_MODE_ACTIVE
    /\ s_requestedMode = POWER_MODE_ACTIVE
    /\ s_idleCycles = U(0)
    /\ ret = Void
    /\ ran = <<>>
    /\ snap = [d \in Descriptors |-> U(0)]
    /\ gap = [d \in Descriptors |-> AgeZero]
    /\ age = [d \in Descriptors |-> AgeZero]
    /\ passAge = AgeZero
    /\ ticked = FALSE
    /\ runs = [d \in Descriptors |-> 0]
    /\ sameReading = FALSE

\* the static initialisers of log.c, cli.c and App_TaskSensorSample
InitIo ==
    /\ s_logUart = NULL
    /\ s_minLevel = LOG_LEVEL_INFO
    /\ s_enabled = s_enabled_init
    /\ s_cliUart = NULL
    /\ s_logPaused = FALSE
    /\ s_prevLogEnabled = FALSE
    /\ s_prevLogLevel = LOG_LEVEL_INFO
    /\ s_lineBuffer = LineCleared
    /\ s_lineIndex = 0
    /\ rx = <<>>
    /\ lastSampleTick_ms = U(0)
    /\ uart = <<>>
    /\ reads = 0
    /\ call = NoCall
    /\ configured = FALSE
    /\ pausedCfg = NoCfg

Init ==
    /\ InitCommon
    /\ InitIo
    /\ s_tasks = [i \in 0 .. APP_MAX_TASKS - 1 |-> NULL]
    /\ s_taskCount = 0
    /\ regLog = <<>>
    /\ runLog = NoRunLog

\* The state after seven successful registrations at tick 0, one short of
\* a full registry.
Loaded ==
    <<"s_heartbeatTask", "s_powerTask", "s_heartbeatTask", "s_powerTask",
      "s_heartbeatTask", "s_powerTask", "s_heartbeatTask">>

InitLoaded ==
    /\ InitCommon
    /\ InitIo
    /\ s_tasks = [i \in 0 .. APP_MAX_TASKS - 1 |->
                    IF i < Len(Loaded) THEN Loaded[i + 1] ELSE NULL]
    /\ s_taskCount = Len(Loaded)
    /\ regLog = Loaded
    /\ runLog = NoRunLog

\* ---------------------------------------------------- logger
\* CLI_OnExternalOutput of cli.c: the prompt is redrawn after a log line
\* CLI_OnExternalOutput, lines 440-448, while the line buffer holds buf and
\* the write index is len: "\r> ", then the first idx bytes of the buffer
CLI_Redraw(buf, len) ==
    IF s_cliUart = NULL THEN <<>>
    ELSE <<<<"CLI", "\r> ">>>> \o
         (IF len > 0 THEN <<<<"CLI", [k \in 1 .. len |-> buf[k - 1]]>>>> ELSE <<>>)

CLI_OnExternalOutput == CLI_Redraw(s_lineBuffer, s_lineIndex)

\* a mutant of Log_Passes: a message at the minimum level is filtered
Log_Passes_Above(level) ==
    ~((s_logUart = NULL) \/ (~s_enabled) \/ (level <= s_minLevel))

\* Log_Print, line 72: the filter
Log_Passes(level) ==
    ~((s_logUart = NULL) \/ (~s_enabled) \/ (level < s_minLevel))

\* what one Log_Print call transmits: nothing, or the line (timestamp,
\* level, message) followed by the redraw of the prompt
Log_Lines_In(level, fmt, args, buf, len) ==
    IF s_logUart = NULL THEN <<>>
    ELSE IF ~Log_Passes(level) THEN <<>>
    ELSE <<<<"LOG", tick, level, fmt, args>>>> \o CLI_Redraw(buf, len)

Log_Lines(level, fmt, args) ==
    Log_Lines_In(level, fmt, args, s_lineBuffer, s_lineIndex)

LOG_DEBUG(fmt, args) == Log_Lines(LOG_LEVEL_DEBUG, fmt, args)
LOG_INFO(fmt, args) == Log_Lines(LOG_LEVEL_INFO, fmt, args)
LOG_WARN(fmt, args) == Log_Lines(LOG_LEVEL_WARN, fmt, args)
LOG_ERROR(fmt, args) == Log_Lines(LOG_LEVEL_ERROR, fmt, args)

Log_Init(huart) ==
    /\ pc = "main"
    /\ s_logUart' = huart
    /\ uart' = <<>>
    /\ ret' = Void
    /\ call' = <<"Log_Init", huart>>
    /\ UNCHANGED <<tick, boundVars, schedVars, led, powerVars, histVars,
                   s_minLevel, s_enabled, cliVars, sensVars, configured, pausedCfg>>

\* Log_SetLevel, lines 143-146
Log_SetLevel(level) ==
    /\ pc = "main"
    /\ s_minLevel' = level
    /\ uart' = <<>>
    /\ ret' = Void
    /\ call' = <<"Log_SetLevel", level>>
    /\ configured' = TRUE
    /\ UNCHANGED <<tick, boundVars, schedVars, led, powerVars, histVars,
                   s_logUart, s_enabled, cliVars, sensVars, pausedCfg>>

\* Log_Enable, lines 153-156
Log_Enable(enable) ==
    /\ pc = "main"
    /\ s_enabled' = enable
    /\ uart' = <<>>
    /\ ret' = Void
    /\ call' = <<"Log_Enable", enable>>
    /\ configured' = TRUE
    /\ UNCHANGED <<tick, boundVars, schedVars, led, powerVars, histVars,
                   s_logUart, s_minLevel, cliVars, sensVars, pausedCfg>>

\* a LOG_* call made by any module, with a message of its own
Log_Print(level) ==
    /\ pc = "main"
    /\ uart' = Log_Lines(level, "message", <<>>)
    /\ ret' = Void
    /\ call' = <<"Log_Print", level>>
    /\ UNCHANGED <<tick, boundVars, schedVars, led, powerVars, histVars,
                   logVars, cliVars, sensVars, configured, pausedCfg>>

\* ---------------------------------------------------- the clock
\* The tick counter advances by delta ms, at any point of the program.
Clock_Body(delta) ==
    /\ pc # "fault"
    /\ tick' = Add32(tick, delta)
    /\ age' = [d \in Descriptors |->
                 IF \E i \in 0 .. s_taskCount - 1 : s_tasks[i] = d
                 THEN AgeAdd(age[d], delta) ELSE age[d]]
    /\ passAge' = IF pc \in {"run", "call", "cli"} THEN AgeAdd(passAge, delta) ELSE passAge
    /\ ticked' = TRUE
    /\ UNCHANGED <<regs, passes, schedVars, led, powerVars, ret,
                   ran, snap, gap, runs, sameReading, regLog, runLog, ioVars, uart>>

\* one of the clock advances explored
ClockAdvance(delta) ==
    /\ advances < MaxAdvances
    /\ advances' = advances + 1
    /\ Clock_Body(delta)

\* ---------------------------------------------------- power manager
PowerManager_Init ==
    /\ pc = "main"
    /\ s_currentMode' = POWER_MODE_ACTIVE
    /\ s_requestedMode' = POWER_MODE_ACTIVE
    /\ s_idleCycles' = U(0)
    /\ uart' = LOG_INFO("PowerManager: initialized (mode = ACTIVE)", <<>>)
    /\ ret' = Void
    /\ call' = <<"PowerManager_Init">>
    /\ UNCHANGED <<tick, boundVars, schedVars, led, histVars,
                   logVars, cliVars, sensVars, configured, pausedCfg>>

\* a mutant of RequestMode_Body: the request is applied at once
RequestMode_Immediate(mode) ==
    /\ s_requestedMode' = mode
    /\ s_currentMode' = mode
    /\ UNCHANGED s_idleCycles

\* the body of PowerManager_RequestMode
RequestMode_Body(mode) ==
    /\ s_requestedMode' = IF mode # s_requestedMode THEN mode ELSE s_requestedMode
    /\ UNCHANGED <<s_currentMode, s_idleCycles>>

\* a mutant of RequestMode_Log: every request is logged
RequestMode_Log_Always(mode) ==
    LOG_INFO("PowerManager: requested mode change to %d", <<mode>>)

\* what PowerManager_RequestMode logs, line 73, while the line buffer holds
\* buf and the write index is len
RequestMode_Log_In(mode, buf, len) ==
    IF mode # s_requestedMode
    THEN Log_Lines_In(LOG_LEVEL_INFO, "PowerManager: requested mode change to %d",
                      <<mode>>, buf, len)
    ELSE <<>>

\* what PowerManager_RequestMode logs, line 73
RequestMode_Log(mode) == RequestMode_Log_In(mode, s_lineBuffer, s_lineIndex)

PowerManager_RequestMode(mode) ==
    /\ pc = "main"
    /\ RequestMode_Body(mode)
    /\ uart' = RequestMode_Log(mode)
    /\ ret' = Void
    /\ call' = <<"PowerManager_RequestMode", mode>>
    /\ configured' = TRUE
    /\ UNCHANGED <<tick, boundVars, schedVars, led, histVars,
                   logVars, cliVars, sensVars, pausedCfg>>

PowerManager_GetCurrentMode ==
    /\ pc = "main"
    /\ ret' = <<"PowerManager_GetCurrentMode", s_currentMode>>
    /\ uart' = <<>>
    /\ call' = <<"PowerManager_GetCurrentMode">>
    /\ UNCHANGED <<tick, boundVars, schedVars, led, powerVars, histVars,
                   logVars, cliVars, sensVars, configured, pausedCfg>>

\* a mutant of Update_Body: a transition keeps the idle-cycle counter
Update_Body_KeepCount ==
    IF s_requestedMode # s_currentMode
    THEN /\ s_currentMode' = s_requestedMode
         /\ UNCHANGED <<s_requestedMode, s_idleCycles>>
    ELSE /\ s_idleCycles' = Add32(s_idleCycles, U(1))
         /\ UNCHANGED <<s_currentMode, s_requestedMode>>

\* a mutant of Update_Body: a pending request is never applied
Update_Body_Ignore ==
    IF s_requestedMode # s_currentMode
    THEN UNCHANGED <<s_currentMode, s_requestedMode, s_idleCycles>>
    ELSE /\ s_idleCycles' = Add32(s_idleCycles, U(1))
         /\ UNCHANGED <<s_currentMode, s_requestedMode>>

\* the body of PowerManager_Update
Update_Body ==
    IF s_requestedMode # s_currentMode
    THEN /\ s_currentMode' = s_requestedMode
         /\ s_idleCycles' = U(0)
         /\ UNCHANGED s_requestedMode
    ELSE /\ s_idleCycles' = Add32(s_idleCycles, U(1))
         /\ UNCHANGED <<s_currentMode, s_requestedMode>>

\* what PowerManager_Update logs, lines 91 and 102
Update_Log ==
    IF s_requestedMode # s_currentMode
    THEN LOG_INFO("PowerManager: applying mode change %d -> %d",
                  <<s_currentMode, s_requestedMode>>)
    ELSE LOG_DEBUG("PowerManager: mode=%d, idleCycles=%lu",
                   <<s_currentMode, Add32(s_idleCycles, U(1))>>)

\* the idle-cycle counter of a program whose power manager has counted
\* 2^32 - 2 updates without a transition
LateIdleCycles == UNeg(2)

PowerManager_Update ==
    /\ pc = "main"
    /\ s_requestedMode = s_currentMode =>
          \/ Ge32(U(MaxIdleCycles - 1), s_idleCycles)
          \/ Ge32(s_idleCycles, LateIdleCycles)
    /\ Update_Body
    /\ uart' = Update_Log
    /\ ret' = Void
    /\ call' = <<"PowerManager_Update">>
    /\ UNCHANGED <<tick, boundVars, schedVars, led, histVars,
                   logVars, cliVars, sensVars, configured, pausedCfg>>

\* ---------------------------------------------------- task manager
AppTaskManager_Init ==
    /\ pc = "main"
    /\ s_tasks' = [i \in 0 .. APP_MAX_TASKS - 1 |-> NULL]
    /\ s_taskCount' = 0
    /\ regLog' = <<>>
    /\ age' = [d \in Descriptors |-> AgeZero]
    /\ runs' = [d \in Descriptors |-> 0]
    /\ ret' = Void
    /\ uart' = LOG_INFO("Task Manager initialized (max tasks = %lu)", <<APP_MAX_TASKS>>)
    /\ UNCHANGED <<tick, boundVars, lastRun_ms, pc, now_ms, idx, led, powerVars,
                   ran, snap, gap, passAge, ticked, sameReading, runLog, ioVars>>

\* a mutant of RegisterStatus: one status for both rejections, and a
\* registry that takes a ninth task
RegisterStatus_Lax(task) ==
    IF task = NULL THEN -1
    ELSE IF s_taskCount > APP_MAX_TASKS THEN -1
    ELSE 0

\* the value AppTaskManager_RegisterTask returns
RegisterStatus(task) ==
    IF task = NULL THEN -1
    ELSE IF s_taskCount >= APP_MAX_TASKS THEN -2
    ELSE 0

\* a mutant of RegisterSlot: off by one, the slot after the first free one
RegisterSlot_Next == s_taskCount + 1

\* the slot a successful registration writes
RegisterSlot == s_taskCount

\* a mutant of RegisterStamp: lastRun_ms keeps its static initialiser
RegisterStamp_None(task) == lastRun_ms

\* lastRun_ms after a successful registration
RegisterStamp(task) == [lastRun_ms EXCEPT ![task] = tick]

\* what AppTaskManager_RegisterTask logs, lines 45, 51 and 59
RegisterTask_Log(task) ==
    IF task = NULL
    THEN LOG_ERROR("Attempted to register a NULL task", <<>>)
    ELSE IF s_taskCount >= APP_MAX_TASKS
    THEN LOG_WARN("Task list is full, cannot register task '%s'", <<task>>)
    ELSE LOG_INFO("Registered task '%s' with period %lu ms", <<task, period_ms(task)>>)

AppTaskManager_RegisterTask(task) ==
    /\ pc = "main"
    /\ RegisterStatus(task) = 0 => regs < MaxRegs
    /\ ret' = <<"AppTaskManager_RegisterTask", RegisterStatus(task)>>
    /\ IF RegisterStatus(task) = 0
       THEN /\ lastRun_ms' = RegisterStamp(task)
            /\ s_tasks' = [s_tasks EXCEPT ![RegisterSlot] = task]
            /\ s_taskCount' = s_taskCount + 1
            /\ age' = [age EXCEPT ![task] = AgeZero]
            /\ regLog' = Append(regLog, task)
            /\ runs' = [runs EXCEPT ![task] = 0]
            /\ regs' = regs + 1
       ELSE UNCHANGED <<lastRun_ms, s_tasks, s_taskCount, age, runs, regLog, regs>>
    /\ uart' = RegisterTask_Log(task)
    /\ UNCHANGED <<tick, advances, passes, pc, now_ms, idx, led, powerVars,
                   ran, snap, gap, passAge, ticked, sameReading, runLog, ioVars>>

\* history: a pass of a second run begins; its reading is compared with the
\* reading of the same pass of the first run
RunLog_AtBegin ==
    IF runLog.phase = "second"
    THEN [runLog EXCEPT !.same = /\ runLog.same
                                /\ passes < Len(runLog.passes)
                                /\ tick = runLog.passes[passes + 1][1]]
    ELSE runLog

\* history: a pass of a first run ends; its reading, the slots it invoked,
\* the stamps it leaves and the real gaps it began with are recorded
RunLog_AtEnd ==
    IF runLog.phase = "first"
    THEN [runLog EXCEPT !.passes = Append(@, <<now_ms, ran, lastRun_ms, gap>>)]
    ELSE runLog

\* RunOnce, line 68: the pass reads the clock once
RunOnce_Enter ==
    /\ pc = "main"
    /\ pc' = "run"
    /\ now_ms' = tick
    /\ idx' = 0
    /\ ran' = <<>>
    /\ snap' = lastRun_ms
    /\ gap' = age
    /\ sameReading' = (passes > 0 /\ ~ticked)
    /\ runLog' = RunLog_AtBegin
    /\ ticked' = FALSE
    /\ passAge' = AgeZero
    /\ ret' = Void
    /\ uart' = <<>>
    /\ UNCHANGED <<tick, advances, regs, s_tasks, s_taskCount, lastRun_ms, led,
                   powerVars, age, runs, regLog, ioVars>>

\* one of the passes explored
RunOnce_Begin ==
    /\ passes < MaxPasses
    /\ passes' = passes + 1
    /\ RunOnce_Enter

\* a mutant of IsDue: a task is due only after more than a period
IsDue_Strict(task) ==
    LET elapsed == Sub32(now_ms, lastRun_ms[task])
    IN  elapsed # period_ms(task) /\ Ge32(elapsed, period_ms(task))

\* a mutant of IsDue: period 0 switches a task off
IsDue_ZeroNever(task) ==
    LET elapsed == Sub32(now_ms, lastRun_ms[task])
    IN  period_ms(task) # U(0) /\ Ge32(elapsed, period_ms(task))

\* a mutant of IsDue: the clock is read again for every task
IsDue_Reread(task) ==
    LET elapsed == Sub32(tick, lastRun_ms[task])
    IN  Ge32(elapsed, period_ms(task))

\* a mutant of IsDue: the operands of the subtraction are exchanged
IsDue_Swapped(task) ==
    LET elapsed == Sub32(lastRun_ms[task], now_ms)
    IN  Ge32(elapsed, period_ms(task))

\* RunOnce, lines 78-79: elapsed >= task->period_ms
IsDue(task) ==
    LET elapsed == Sub32(now_ms, lastRun_ms[task])
    IN  Ge32(elapsed, period_ms(task))

\* a mutant of SlotAt: the pass walks the registry backwards
SlotAt_Reversed(i) == s_taskCount - 1 - i

\* RunOnce, line 72: the slot examined in iteration i
SlotAt(i) == i

\* a mutant of RunStamp: lastRun_ms is not updated when a task runs
RunStamp_None(task) == lastRun_ms

\* a mutant of RunStamp: the clock is read again when the task is run
RunStamp_Reread(task) == [lastRun_ms EXCEPT ![task] = tick]

\* a mutant of RunStamp: missed periods are caught up one at a time
RunStamp_CatchUp(task) ==
    [lastRun_ms EXCEPT ![task] = Add32(lastRun_ms[task], period_ms(task))]

\* RunOnce, line 85: task->lastRun_ms = now_ms
RunStamp(task) == [lastRun_ms EXCEPT ![task] = now_ms]

\* ---------------------------------------------------- sampling task
\* App_TaskSensorSample, lines 197-215: the period of a power mode
SamplePeriod(mode) ==
    CASE mode = POWER_MODE_ACTIVE -> SENSOR_PERIOD_ACTIVE_MS
      [] mode = POWER_MODE_IDLE   -> SENSOR_PERIOD_IDLE_MS
      [] mode = POWER_MODE_SLEEP  -> SENSOR_PERIOD_SLEEP_MS
      [] OTHER                    -> SENSOR_PERIOD_STOP_MS

\* a mutant of Sample_Due: the period is not tested for 0
Sample_Due_NoZeroTest(period) ==
    Ge32(Sub32(tick, lastSampleTick_ms), period)

\* App_TaskSensorSample, lines 218 and 225: sampling is enabled and due
Sample_Due(period) ==
    /\ period # U(0)
    /\ ~(~Ge32(Sub32(tick, lastSampleTick_ms), period))

\* SensorSimTemp_Read: a reading is produced unless outData is NULL
SensorSimTemp_Read(outData) == outData # NULL

\* what App_TaskSensorSample logs, lines 220, 237 and 244
SensorSample_Log ==
    LET mode == s_currentMode
        period == SamplePeriod(mode)
    IN  IF period = U(0)
        THEN LOG_DEBUG("SensorSample: sampling disabled in current power mode (%d)",
                       <<mode>>)
        ELSE IF ~Sample_Due(period) THEN <<>>
        ELSE IF SensorSimTemp_Read("data")
        THEN LOG_INFO("SensorSample: value=%.2f C, timestamp=%lu ms, mode=%d",
                      <<tick, mode>>)
        ELSE LOG_WARN("SensorSample: read failed (mode=%d)", <<mode>>)

\* App_TaskSensorSample, lines 193-235: the static tick and the sensor read
SensorSample_Body ==
    /\ LET period == SamplePeriod(s_currentMode)
       IN  IF Sample_Due(period)
           THEN /\ lastSampleTick_ms' = tick
                /\ reads' = 1
           ELSE /\ reads' = 0
                /\ UNCHANGED lastSampleTick_ms
    /\ call' = <<"App_TaskSensorSample">>
    /\ UNCHANGED <<logVars, cliVars, configured, pausedCfg>>

\* the sampling task called on its own
App_TaskSensorSample ==
    /\ pc = "main"
    /\ SensorSample_Body
    /\ uart' = SensorSample_Log
    /\ ret' = Void
    /\ UNCHANGED <<tick, boundVars, schedVars, led, powerVars, histVars>>

\* App_TaskHeartbeat: toggles the LED
App_TaskHeartbeat ==
    /\ led' = ~led
    /\ UNCHANGED powerVars

\* what App_TaskHeartbeat logs, line 167
Heartbeat_Log == LOG_INFO("Heartbeat task toggled LED", <<>>)

\* App_TaskPowerManager: delegates to PowerManager_Update
App_TaskPowerManager ==
    /\ Update_Body
    /\ UNCHANGED led

\* what the function of a task logs
Invoke_Log(fn) ==
    CASE fn = "App_TaskHeartbeat"    -> Heartbeat_Log
      [] fn = "App_TaskSensorSample" -> SensorSample_Log
      [] fn = "App_TaskPowerManager" -> Update_Log
      [] fn = "App_TaskCli"          -> <<>>
      [] fn = NULL                   -> <<>>

\* RunOnce, line 81: the trace of a task found due
RunOnce_Log(task) ==
    LOG_DEBUG("Running task '%s' (elapsed: %lu ms)",
              <<task, Sub32(now_ms, lastRun_ms[task])>>)

\* RunOnce, line 86: task->function(). A call through a NULL function
\* pointer faults: the program does not continue. App_TaskCli enters the
\* receive loop of CLI_Process.
Invoke(fn) ==
    CASE fn = "App_TaskHeartbeat" ->
             App_TaskHeartbeat /\ pc' = "run" /\ UNCHANGED ioVars
      [] fn = "App_TaskSensorSample" ->
             SensorSample_Body /\ pc' = "run" /\ UNCHANGED <<led, powerVars>>
      [] fn = "App_TaskPowerManager" ->
             App_TaskPowerManager /\ pc' = "run" /\ UNCHANGED ioVars
      [] fn = "App_TaskCli" ->
             pc' = "cli" /\ UNCHANGED <<led, powerVars, ioVars>>
      [] fn = NULL ->
             UNCHANGED <<led, powerVars, ioVars>> /\ pc' = "fault"

\* a mutant of RunOnce_LoopEnd: the pass returns after the first task it runs
RunOnce_LoopEnd_AfterRun == idx >= s_taskCount \/ ran # <<>>

\* RunOnce, line 70: i < s_taskCount is false
RunOnce_LoopEnd == idx >= s_taskCount

\* RunOnce, lines 70-85: one iteration of the loop up to the call of the
\* task: the slot is skipped, or the task is found due, traced and stamped.
\* The trace is transmitted before the function is called, so the clock may
\* advance between the two.
RunOnce_Step ==
    /\ pc = "run"
    /\ ~RunOnce_LoopEnd
    /\ LET task == s_tasks[SlotAt(idx)]
       IN  IF task = NULL
           THEN /\ idx' = idx + 1
                /\ uart' = <<>>
                /\ UNCHANGED <<lastRun_ms, pc, age>>
           ELSE IF IsDue(task)
           THEN /\ uart' = RunOnce_Log(task)
                /\ lastRun_ms' = RunStamp(task)
                /\ age' = [age EXCEPT ![task] = passAge]
                /\ pc' = "call"
                /\ UNCHANGED idx
           ELSE /\ idx' = idx + 1
                /\ uart' = <<>>
                /\ UNCHANGED <<lastRun_ms, pc, age>>
    /\ UNCHANGED <<tick, boundVars, s_tasks, s_taskCount, now_ms, ret, led,
                   powerVars, ran, runs, ioVars,
                   snap, gap, passAge, ticked, sameReading, regLog, runLog>>

\* RunOnce, lines 86-88: the function of the task found due is called, and
\* the loop goes on to the next slot
RunOnce_Call ==
    /\ pc = "call"
    /\ idx' = idx + 1
    /\ LET task == s_tasks[SlotAt(idx)]
       IN  /\ Invoke(function(task))
           /\ uart' = Invoke_Log(function(task))
           /\ ran' = Append(ran, SlotAt(idx))
           /\ runs' = [runs EXCEPT ![task] = IF @ < 2 THEN @ + 1 ELSE 2]
    /\ UNCHANGED <<tick, boundVars, s_tasks, s_taskCount, lastRun_ms, now_ms,
                   ret, age,
                   snap, gap, passAge, ticked, sameReading, regLog, runLog>>

\* RunOnce, line 70: the loop ends and the call returns; its locals and the
\* record of the pass are gone
RunOnce_End ==
    /\ pc = "run"
    /\ RunOnce_LoopEnd
    /\ pc' = "main"
    /\ now_ms' = U(0)
    /\ idx' = 0
    /\ ran' = <<>>
    /\ snap' = [d \in Descriptors |-> U(0)]
    /\ gap' = [d \in Descriptors |-> AgeZero]
    /\ sameReading' = FALSE
    /\ passAge' = AgeZero
    /\ runLog' = RunLog_AtEnd
    /\ uart' = <<>>
    /\ UNCHANGED <<tick, boundVars, s_tasks, s_taskCount, lastRun_ms,
                   led, powerVars, ret, age, ticked, runs, regLog, ioVars>>

AppTaskManager_RunOnce ==
    RunOnce_Begin \/ RunOnce_Step \/ RunOnce_Call \/ RunOnce_End

\* ---------------------------------------------------- command line interface
\* CLI_SendString, lines 174-189, while s_cliUart is huart: nothing without
\* a UART and nothing for the empty string, else one transmission
CLI_SendString_To(huart, str) ==
    IF huart = NULL THEN <<>>
    ELSE IF str = "" THEN <<>>
    ELSE <<<<"CLI", str>>>>

CLI_SendString(str) == CLI_SendString_To(s_cliUart, str)

\* The conversion specifications of a format, in order: the formats of
\* cli.c that print a number (lines 417-419); every other format prints its
\* arguments as strings.
CLI_Conversions(fmt, args) ==
    CASE fmt = "  LogLevel: %d (0=DEBUG,1=INFO,2=WARN,3=ERROR)\r\n" -> <<"%d">>
      [] fmt = "  PowerMode: %d (0=ACTIVE,1=IDLE,2=SLEEP,3=STOP)\r\n" -> <<"%d">>
      [] fmt = "  Sensor sample period: %lu ms\r\n" -> <<"%lu">>
      [] OTHER -> [k \in 1 .. Len(args) |-> "%s"]

\* vsnprintf, line 163: its value, the number of characters of the
\* formatted text: those of the format, each conversion specification
\* replaced by what it prints for its argument
vsnprintf(fmt, args) ==
    LET conv == CLI_Conversions(fmt, args)
        digits(n) == 1 + Cardinality({k \in 1 .. 9 : n >= 10 ^ k})
        digits32(v) == 1 + Cardinality({k \in 1 .. 9 : Ge32(v, U(10 ^ k))})
        printed(k) ==
            CASE conv[k] = "%s"  -> Len(args[k])
              [] conv[k] = "%d"  -> IF args[k] < 0 THEN 1 + digits(0 - args[k])
                                    ELSE digits(args[k])
              [] conv[k] = "%lu" -> digits32(args[k])
        sum[k \in 0 .. Len(args)] ==
            IF k = 0 THEN Len(fmt)
            ELSE sum[k - 1] + printed(k) - Len(conv[k])
    IN  sum[Len(args)]

\* a mutant of CLI_Print: the response goes through the gate of the logger
CLI_Print_Gated(fmt, args) ==
    IF s_cliUart # NULL /\ s_enabled THEN <<<<"CLI", fmt, args>>>> ELSE <<>>

\* CLI_Print, lines 153-168: nothing without a UART; else the text is
\* formatted into a buffer of CLI_PRINT_BUFFER bytes, which holds its first
\* CLI_PRINT_BUFFER - 1 characters, and handed to CLI_SendString, which
\* transmits nothing for an empty text (line 182). <<"CLI", fmt, args>> is
\* the whole formatted text, <<"CLI", fmt, args, n>> its first n characters.
CLI_Print(fmt, args) ==
    IF s_cliUart = NULL THEN <<>>
    ELSE LET len == vsnprintf(fmt, args)
         IN  IF len = 0 THEN <<>>
             ELSE IF len < CLI_PRINT_BUFFER THEN <<<<"CLI", fmt, args>>>>
             ELSE <<<<"CLI", fmt, args, CLI_PRINT_BUFFER - 1>>>>

\* CLI_Print called with a text of its own
CLI_Print_Call(fmt, args) ==
    /\ pc = "main"
    /\ uart' = CLI_Print(fmt, args)
    /\ ret' = Void
    /\ call' = <<"CLI_Print", fmt, args>>
    /\ UNCHANGED <<tick, boundVars, schedVars, led, powerVars, histVars,
                   logVars, cliVars, sensVars, configured, pausedCfg>>

CLI_Init(huart) ==
    /\ pc = "main"
    /\ s_cliUart' = huart
    /\ s_lineIndex' = 0
    /\ s_lineBuffer' = LineCleared
    /\ uart' = CLI_SendString_To(huart, "\r\nSmart Sensor Hub CLI ready.\r\n") \o
               CLI_SendString_To(huart, "Type 'help' for a list of commands.\r\n") \o
               CLI_SendString_To(huart, "\r\n> ")
    /\ ret' = Void
    /\ call' = <<"CLI_Init", huart>>
    /\ UNCHANGED <<tick, boundVars, schedVars, led, powerVars, histVars,
                   logVars, s_logPaused, s_prevLogEnabled, s_prevLogLevel,
                   rx, sensVars, configured, pausedCfg>>

\* CLI_HandleLine, lines 246-247: the line is trimmed, then lowered
CLI_Normalize(line) == CLI_ToLower(CLI_Trim(line))

\* the normalised form of every line of Lines
Normalized == [line \in Lines |-> CLI_Normalize(line)]

\* lines 275-276 and 351-352: the trimmed argument of a log and of a pmode line
LogArg == [line \in Lines |-> CLI_Trim(After(Normalized[line], 4))]

PmodeArg == [line \in Lines |-> CLI_Trim(After(Normalized[line], 6))]

\* the same three strings for any line
NormalizedOf(line) ==
    IF line \in Lines THEN Normalized[line] ELSE CLI_Normalize(line)

LogArgOf(line) ==
    IF line \in Lines THEN LogArg[line] ELSE CLI_Trim(After(CLI_Normalize(line), 4))

PmodeArgOf(line) ==
    IF line \in Lines THEN PmodeArg[line] ELSE CLI_Trim(After(CLI_Normalize(line), 6))

\* s_lineBuffer while CLI_HandleLine executes the line: CLI_Process has
\* terminated the line at s_lineIndex (line 119), CLI_Trim has cut the
\* trailing blanks (line 231) and moved the rest to the front (lines 233-236),
\* CLI_ToLower has lowered the string up to its terminator
CLI_HandleLine_Buffer(line) ==
    LET n == Len(line)
        raw == [i \in 0 .. CLI_MAX_LINE_LENGTH - 1 |->
                  IF i < n THEN line[i + 1] ELSE NUL]
        start == n - Len(TrimStart(line))
        m == Len(CLI_Trim(line))
        cut == [raw EXCEPT ![start + m] = NUL]
        moved == IF start # 0
                 THEN [i \in 0 .. CLI_MAX_LINE_LENGTH - 1 |->
                         IF i <= m THEN cut[i + start] ELSE cut[i]]
                 ELSE cut
    IN  [i \in 0 .. CLI_MAX_LINE_LENGTH - 1 |->
           IF i < m THEN LowerChar(moved[i]) ELSE moved[i]]

\* s_lineBuffer while the pmode branch calls PowerManager_RequestMode:
\* CLI_Trim(arg), line 352, has terminated the argument and moved it to
\* line + 6 (lines 231-236)
CLI_Pmode_Buffer(line) ==
    LET buf == CLI_HandleLine_Buffer(line)
        arg == After(NormalizedOf(line), 6)
        start == 6 + (Len(arg) - Len(TrimStart(arg)))
        m == Len(CLI_Trim(arg))
        cut == [buf EXCEPT ![start + m] = NUL]
    IN  IF start # 6
        THEN [i \in 0 .. CLI_MAX_LINE_LENGTH - 1 |->
                IF i >= 6 /\ i <= 6 + m THEN cut[i + (start - 6)] ELSE cut[i]]
        ELSE cut

\* lines 254-270: the help text
CLI_Help(pre, post) ==
    /\ uart' = pre \o CLI_Print("\r\nAvailable commands:\r\n", <<>>) \o
                 CLI_Print("  help            - Show this help text\r\n", <<>>) \o
                 CLI_Print("  log off         - Disable all task logging\r\n", <<>>) \o
                 CLI_Print("  log error       - Task logs at ERROR level only\r\n", <<>>) \o
                 CLI_Print("  log warn        - Task logs at WARN and above\r\n", <<>>) \o
                 CLI_Print("  log info        - Task logs at INFO and above\r\n", <<>>) \o
                 CLI_Print("  log debug       - Task logs at DEBUG and above\r\n", <<>>) \o
                 CLI_Print("  log pause       - Temporarily pause all task logs\r\n", <<>>) \o
                 CLI_Print("  log resume      - Resume task logs to previous state\r\n", <<>>) \o
                 CLI_Print("  pmode active    - Request POWER_MODE_ACTIVE\r\n", <<>>) \o
                 CLI_Print("  pmode idle      - Request POWER_MODE_IDLE\r\n", <<>>) \o
                 CLI_Print("  pmode sleep     - Request POWER_MODE_SLEEP\r\n", <<>>) \o
                 CLI_Print("  pmode stop      - Request POWER_MODE_STOP\r\n", <<>>) \o
                 CLI_Print("  status          - Show logging and power status\r\n", <<>>) \o post
    /\ UNCHANGED <<logVars, s_logPaused, s_prevLogEnabled, s_prevLogLevel, powerVars>>

\* lines 284-311: the level a log command names
LogArgLevel(arg) ==
    CASE arg = STR_error -> LOG_LEVEL_ERROR
      [] arg = STR_warn  -> LOG_LEVEL_WARN
      [] arg = STR_info  -> LOG_LEVEL_INFO
      [] arg = STR_debug -> LOG_LEVEL_DEBUG

LogLevelName(level) ==
    CASE level = LOG_LEVEL_ERROR -> "ERROR"
      [] level = LOG_LEVEL_WARN  -> "WARN"
      [] level = LOG_LEVEL_INFO  -> "INFO"
      [] level = LOG_LEVEL_DEBUG -> "DEBUG"

\* lines 278-283: log off
CLI_LogOff(pre, post) ==
    /\ s_enabled' = FALSE
    /\ s_logPaused' = FALSE
    /\ uart' = pre \o CLI_Print("\r\nTask logging disabled.\r\n", <<>>) \o post
    /\ UNCHANGED <<s_logUart, s_minLevel, s_prevLogEnabled, s_prevLogLevel>>

\* a mutant of CLI_LogLevel: the level commands leave the pause flag alone
CLI_LogLevel_KeepPause(level, pre, post) ==
    /\ s_minLevel' = level
    /\ s_enabled' = TRUE
    /\ uart' = pre \o CLI_Print("\r\nTask logging enabled, level=%s.\r\n",
                           <<LogLevelName(level)>>) \o post
    /\ UNCHANGED <<s_logUart, s_logPaused, s_prevLogEnabled, s_prevLogLevel>>

\* lines 284-311: log error, log warn, log info, log debug
CLI_LogLevel(level, pre, post) ==
    /\ s_minLevel' = level
    /\ s_enabled' = TRUE
    /\ s_logPaused' = FALSE
    /\ uart' = pre \o CLI_Print("\r\nTask logging enabled, level=%s.\r\n",
                           <<LogLevelName(level)>>) \o post
    /\ UNCHANGED <<s_logUart, s_prevLogEnabled, s_prevLogLevel>>

\* a mutant of PauseAccepted: every log pause takes a snapshot
PauseAccepted_Always == TRUE

\* line 314: log pause is accepted when no pause is in force
PauseAccepted == ~s_logPaused

\* a mutant of CLI_LogPause: the pause leaves the logger enabled
CLI_LogPause_StillOn(pre, post) ==
    IF PauseAccepted
    THEN /\ s_prevLogEnabled' = s_enabled
         /\ s_prevLogLevel' = s_minLevel
         /\ s_logPaused' = TRUE
         /\ uart' = pre \o CLI_Print("\r\nTask logging paused. Use 'log resume' to restore.\r\n",
                                <<>>) \o post
         /\ UNCHANGED <<s_logUart, s_minLevel, s_enabled>>
    ELSE /\ uart' = pre \o CLI_Print("\r\nTask logging is already paused.\r\n", <<>>) \o post
         /\ UNCHANGED <<logVars, s_logPaused, s_prevLogEnabled, s_prevLogLevel>>

\* lines 312-326: log pause
CLI_LogPause(pre, post) ==
    IF PauseAccepted
    THEN /\ s_prevLogEnabled' = s_enabled
         /\ s_prevLogLevel' = s_minLevel
         /\ s_enabled' = FALSE
         /\ s_logPaused' = TRUE
         /\ uart' = pre \o CLI_Print("\r\nTask logging paused. Use 'log resume' to restore.\r\n",
                                <<>>) \o post
         /\ UNCHANGED <<s_logUart, s_minLevel>>
    ELSE /\ uart' = pre \o CLI_Print("\r\nTask logging is already paused.\r\n", <<>>) \o post
         /\ UNCHANGED <<logVars, s_logPaused, s_prevLogEnabled, s_prevLogLevel>>

\* a mutant of ResumeEnabled: log resume always switches logging on
ResumeEnabled_On == TRUE

\* line 332: the enable flag log resume restores
ResumeEnabled == s_prevLogEnabled

\* lines 327-340: log resume
CLI_LogResume(pre, post) ==
    IF s_logPaused
    THEN /\ s_minLevel' = s_prevLogLevel
         /\ s_enabled' = ResumeEnabled
         /\ s_logPaused' = FALSE
         /\ uart' = pre \o CLI_Print("\r\nTask logging resumed.\r\n", <<>>) \o post
         /\ UNCHANGED <<s_logUart, s_prevLogEnabled, s_prevLogLevel>>
    ELSE /\ uart' = pre \o CLI_Print("\r\nTask logging is not paused.\r\n", <<>>) \o post
         /\ UNCHANGED <<logVars, s_logPaused, s_prevLogEnabled, s_prevLogLevel>>

\* lines 273-347: the log commands
CLI_Log(arg, pre, post) ==
    /\ CASE arg = STR_off    -> CLI_LogOff(pre, post)
         [] arg \in {STR_error, STR_warn, STR_info, STR_debug} ->
                CLI_LogLevel(LogArgLevel(arg), pre, post)
         [] arg = STR_pause  -> CLI_LogPause(pre, post)
         [] arg = STR_resume -> CLI_LogResume(pre, post)
         [] OTHER ->
                /\ uart' = pre \o CLI_Print("\r\nUnknown log option '%s'. Type 'help'.\r\n",
                                       <<arg>>) \o post
                /\ UNCHANGED <<logVars, s_logPaused, s_prevLogEnabled, s_prevLogLevel>>
    /\ UNCHANGED powerVars

\* a mutant of PmodeValid: every argument is taken
PmodeValid_Any(arg) == TRUE

\* lines 355-376: the argument names a power mode
PmodeValid(arg) == arg \in {STR_active, STR_idle, STR_sleep, STR_stop}

\* lines 354-372: the mode requested, POWER_MODE_ACTIVE unless named otherwise
PmodeRequested(arg) ==
    CASE arg = STR_active -> POWER_MODE_ACTIVE
      [] arg = STR_idle   -> POWER_MODE_IDLE
      [] arg = STR_sleep  -> POWER_MODE_SLEEP
      [] arg = STR_stop   -> POWER_MODE_STOP
      [] OTHER            -> POWER_MODE_ACTIVE

\* lines 349-389: the pmode commands
CLI_Pmode(arg, line, pre, post) ==
    /\ IF PmodeValid(arg)
       THEN /\ RequestMode_Body(PmodeRequested(arg))
            /\ uart' = pre \o
                       RequestMode_Log_In(PmodeRequested(arg),
                                          CLI_Pmode_Buffer(line), Len(line)) \o
                       CLI_Print("\r\nRequested power mode change: %s\r\n", <<arg>>) \o
                       post
       ELSE /\ uart' = pre \o CLI_Print("\r\nUnknown power mode '%s'. Type 'help'.\r\n",
                                   <<arg>>) \o post
            /\ UNCHANGED powerVars
    /\ UNCHANGED <<logVars, s_logPaused, s_prevLogEnabled, s_prevLogLevel>>

\* a mutant of StatusPeriod: the period of the requested mode
StatusPeriod_Requested(mode) ==
    CASE s_requestedMode = POWER_MODE_ACTIVE -> SENSOR_PERIOD_ACTIVE_MS
      [] s_requestedMode = POWER_MODE_IDLE   -> SENSOR_PERIOD_IDLE_MS
      [] s_requestedMode = POWER_MODE_SLEEP  -> SENSOR_PERIOD_SLEEP_MS
      [] OTHER                               -> SENSOR_PERIOD_STOP_MS

\* lines 397-413: the period the status command reports
StatusPeriod(mode) ==
    CASE mode = POWER_MODE_ACTIVE -> SENSOR_PERIOD_ACTIVE_MS
      [] mode = POWER_MODE_IDLE   -> SENSOR_PERIOD_IDLE_MS
      [] mode = POWER_MODE_SLEEP  -> SENSOR_PERIOD_SLEEP_MS
      [] OTHER                    -> SENSOR_PERIOD_STOP_MS

\* a mutant of StatusMode: status reads the requested mode
StatusMode_Requested == s_requestedMode

\* line 393: PowerManager_GetCurrentMode()
StatusMode == s_currentMode

\* lines 391-421: status
CLI_Status(pre, post) ==
    /\ LET mode == StatusMode
           level == s_minLevel
           enable == s_enabled
       IN  uart' = pre \o CLI_Print("\r\nStatus:\r\n", <<>>) \o
                     CLI_Print("  Task logging: %s\r\n",
                               <<IF enable THEN "ENABLED" ELSE "DISABLED">>) \o
                     CLI_Print("  LogLevel: %d (0=DEBUG,1=INFO,2=WARN,3=ERROR)\r\n",
                               <<level>>) \o
                     CLI_Print("  PowerMode: %d (0=ACTIVE,1=IDLE,2=SLEEP,3=STOP)\r\n",
                               <<mode>>) \o
                     CLI_Print("  Sensor sample period: %lu ms\r\n",
                               <<StatusPeriod(mode)>>) \o post
    /\ UNCHANGED <<logVars, s_logPaused, s_prevLogEnabled, s_prevLogLevel, powerVars>>

\* a mutant of CLI_UnknownCommand: an unknown command is ignored
CLI_UnknownCommand_Silent(str) == <<>>

\* line 423: the answer to a line that is no command
CLI_UnknownCommand(str) ==
    CLI_Print("\r\nUnknown command '%s'. Type 'help'.\r\n", <<str>>)

\* CLI_HandleLine, lines 239-424: the line is executed; pre and post are
\* what CLI_Process transmits before and after it
CLI_HandleLine_Body(line, pre, post) ==
    LET str == NormalizedOf(line)
    IN  IF Len(str) = 0
        THEN /\ uart' = pre \o post
             /\ UNCHANGED <<logVars, s_logPaused, s_prevLogEnabled,
                            s_prevLogLevel, powerVars>>
        ELSE IF str = STR_help THEN CLI_Help(pre, post)
        ELSE IF strncmp0(str, STR_log_) THEN CLI_Log(LogArgOf(line), pre, post)
        ELSE IF strncmp0(str, STR_pmode_) THEN CLI_Pmode(PmodeArgOf(line), line, pre, post)
        ELSE IF str = STR_status THEN CLI_Status(pre, post)
        ELSE /\ uart' = pre \o CLI_UnknownCommand(str) \o post
             /\ UNCHANGED <<logVars, s_logPaused, s_prevLogEnabled,
                            s_prevLogLevel, powerVars>>

\* history: the configuration a pause in force was accepted in; after the
\* command that ends the pause, whether it was log resume (line 331) or
\* another command (lines 281, 289, 295, 301, 307)
PausedCfg_Next ==
    IF s_logPaused' /\ ~s_logPaused THEN <<s_enabled, s_minLevel>>
    ELSE IF s_logPaused /\ ~s_logPaused'
    THEN IF \E k \in 1 .. Len(uart') :
                <<uart'[k]>> = CLI_Print("\r\nTask logging resumed.\r\n", <<>>)
         THEN NoCfg
         ELSE CancelledCfg
    ELSE IF ~s_logPaused' THEN NoCfg
    ELSE pausedCfg

\* CLI_HandleLine: the line CLI_Process has completed is executed. CLI_Process
\* runs only once the CLI has its UART, hands over a non-empty line and
\* clears the line buffer afterwards.
CLI_HandleLine(line) ==
    /\ pc = "main"
    /\ s_cliUart # NULL
    /\ CLI_HandleLine_Body(line, <<>>, <<>>)
    /\ ret' = Void
    /\ call' = <<"CLI_HandleLine", line>>
    /\ configured' = TRUE
    /\ pausedCfg' = PausedCfg_Next
    /\ UNCHANGED <<tick, boundVars, schedVars, led, histVars, s_cliUart,
                   lineVars, sensVars>>

\* The terminal sends the bytes of a line once the bytes of the line before
\* have been received.
Uart_Receive(keys) ==
    /\ rx = <<>>
    /\ rx' = keys
    /\ UNCHANGED <<tick, boundVars, schedVars, led, powerVars, ret, histVars,
                   logVars, s_cliUart, s_logPaused, s_prevLogEnabled, s_prevLogLevel,
                   s_lineBuffer, s_lineIndex, sensVars, obsVars, uart>>

\* CLI_PrintPrompt, lines 191-194
CLI_PrintPrompt == CLI_SendString("\r\n> ")

\* the line in the buffer: the characters before the terminator written at
\* s_lineIndex (line 119)
CLI_Line == [k \in 1 .. s_lineIndex |-> s_lineBuffer[k - 1]]

\* a mutant of CLI_Capacity: the buffer is filled to its last byte
CLI_Capacity_Full == CLI_MAX_LINE_LENGTH

\* line 139: the number of characters the buffer takes
CLI_Capacity == CLI_MAX_LINE_LENGTH - 1

\* a mutant of CLI_LineAfterDispatch: the index is reset, the bytes stay
CLI_LineAfterDispatch_Kept == s_lineBuffer

\* line 123: memset after the dispatch
CLI_LineAfterDispatch == LineCleared

\* line 137: the bytes that are stored
CLI_IsPrintable(ch) == (ch >= 32) /\ (ch < 127)

\* lines 139-142: buffer and write index after a printable byte
CLI_Store(buf, len, ch) ==
    IF len < CLI_Capacity
    THEN <<[buf EXCEPT ![len] = Chr(ch)], len + 1>>
    ELSE <<buf, len>>

\* a mutant of CLI_Erase: the index steps back, the byte stays
CLI_Erase_Kept(buf, len) ==
    IF len > 0 THEN <<buf, len - 1>> ELSE <<buf, len>>

\* lines 130-133: buffer and write index after a backspace or delete
CLI_Erase(buf, len) ==
    IF len > 0
    THEN <<[buf EXCEPT ![len - 1] = NUL], len - 1>>
    ELSE <<buf, len>>

\* a mutant of CLI_ReceiveDone: the loop ends at the end of a line
CLI_ReceiveDone_AtLine ==
    \/ Len(rx) = 0
    \/ call[1] = "CLI_Process" /\ call[2] \in {CR, LF}

\* line 114: HAL_UART_Receive with timeout 0 finds no byte
CLI_ReceiveDone == Len(rx) = 0

\* CLI_Process, lines 114-149: one iteration of the receive loop, for the
\* byte HAL_UART_Receive returns. The iterations of one call follow each
\* other; a call that finds no byte changes nothing. The history variable
\* call records the byte and the lines handed to CLI_HandleLine.
CLI_Process ==
    /\ pc \in {"main", "cli"}
    /\ s_cliUart # NULL
    /\ ~CLI_ReceiveDone
    /\ rx' = Tail(rx)
    /\ LET ch == Head(rx)
       IN  IF (ch = CR) \/ (ch = LF)
           THEN IF s_lineIndex > 0
                THEN /\ CLI_HandleLine_Body(CLI_Line, CLI_SendString("\r\n"),
                                            CLI_PrintPrompt)
                     /\ s_lineIndex' = 0
                     /\ s_lineBuffer' = CLI_LineAfterDispatch
                     /\ configured' = TRUE
                     /\ pausedCfg' = PausedCfg_Next
                ELSE /\ uart' = CLI_PrintPrompt
                     /\ UNCHANGED <<s_lineBuffer, s_lineIndex, logVars, s_logPaused,
                                    s_prevLogEnabled, s_prevLogLevel, powerVars,
                                    configured, pausedCfg>>
           ELSE IF (ch = BS) \/ (ch = DEL)
           THEN /\ s_lineBuffer' = CLI_Erase(s_lineBuffer, s_lineIndex)[1]
                /\ s_lineIndex' = CLI_Erase(s_lineBuffer, s_lineIndex)[2]
                /\ uart' = IF s_lineIndex > 0
                           THEN CLI_SendString("\\b \\b")
                           ELSE <<>>
                /\ UNCHANGED <<logVars, s_logPaused, s_prevLogEnabled, s_prevLogLevel,
                               powerVars, configured, pausedCfg>>
           ELSE IF CLI_IsPrintable(ch)
           THEN /\ s_lineBuffer' = CLI_Store(s_lineBuffer, s_lineIndex, ch)[1]
                /\ s_lineIndex' = CLI_Store(s_lineBuffer, s_lineIndex, ch)[2]
                /\ uart' = IF s_lineIndex < CLI_Capacity
                           THEN CLI_SendString(Chr(ch))
                           ELSE <<>>
                /\ UNCHANGED <<logVars, s_logPaused, s_prevLogEnabled, s_prevLogLevel,
                               powerVars, configured, pausedCfg>>
           ELSE /\ uart' = <<>>
                /\ UNCHANGED <<s_lineBuffer, s_lineIndex, logVars, s_logPaused,
                               s_prevLogEnabled, s_prevLogLevel, powerVars,
                               configured, pausedCfg>>
    /\ ret' = Void
    /\ call' = <<"CLI_Process", Head(rx),
                 IF Head(rx) \in {CR, LF} /\ s_lineIndex > 0 THEN <<CLI_Line>> ELSE <<>>>>
    /\ UNCHANGED <<tick, boundVars, schedVars, led, histVars, s_cliUart, sensVars>>

\* App_TaskCli, lines 270-273: CLI_Process returns, at once without a UART
\* (line 109), else when the receiver has no byte (line 114)
App_TaskCli_Return ==
    /\ pc = "cli"
    /\ (s_cliUart = NULL) \/ CLI_ReceiveDone
    /\ pc' = "run"
    /\ uart' = <<>>
    /\ UNCHANGED <<tick, boundVars, s_tasks, s_taskCount, lastRun_ms, now_ms, idx,
                   led, powerVars, ret, histVars, ioVars>>

\* ---------------------------------------------------- specifications
\* the task manager, driven by the main loop while the clock runs
Next ==
    \/ \E delta \in Deltas : ClockAdvance(delta)
    \/ AppTaskManager_Init
    \/ \E task \in Descs \cup {NULL} : AppTaskManager_RegisterTask(task)
    \/ AppTaskManager_RunOnce

\* the power manager, called in any order
NextPower ==
    \/ PowerManager_Init
    \/ \E mode \in PowerMode_t : PowerManager_RequestMode(mode)
    \/ PowerManager_GetCurrentMode
    \/ PowerManager_Update

Spec == Init /\ [][Next]_vars

\* the same program, started one registration short of a full registry
SpecLoaded == InitLoaded /\ [][Next]_vars

SpecPower == Init /\ [][NextPower]_vars

\* The power manager after 2^32 - 2 consecutive updates with no request
\* pending: Active, no task registered, logger and CLI not initialised.
InitPowerLate ==
    /\ tick = U(0)
    /\ advances = 0
    /\ regs = 0
    /\ passes = 0
    /\ lastRun_ms = [d \in Descriptors |-> U(0)]
    /\ pc = "main"
    /\ now_ms = U(0)
    /\ idx = 0
    /\ led = FALSE
    /\ s_currentMode = POWER_MODE_ACTIVE
    /\ s_requestedMode = POWER_MODE_ACTIVE
    /\ s_idleCycles = LateIdleCycles
    /\ ret = Void
    /\ ran = <<>>
    /\ snap = [d \in Descriptors |-> U(0)]
    /\ gap = [d \in Descriptors |-> AgeZero]
    /\ age = [d \in Descriptors |-> AgeZero]
    /\ passAge = AgeZero
    /\ ticked = FALSE
    /\ runs = [d \in Descriptors |-> 0]
    /\ sameReading = FALSE
    /\ InitIo
    /\ s_tasks = [i \in 0 .. APP_MAX_TASKS - 1 |-> NULL]
    /\ s_taskCount = 0
    /\ regLog = <<>>
    /\ runLog = NoRunLog

SpecPowerLate == InitPowerLate /\ [][NextPower]_vars

\* logger, command line and power manager: commands arrive in any order
\* between log calls of the tasks and updates of the power manager
NextCli ==
    \/ Log_Init(huart2)
    \/ CLI_Init(huart2)
    \/ \E line \in Lines : CLI_HandleLine(line)
    \/ \E level \in LogLevel_t : Log_Print(level)
    \/ PowerManager_Init
    \/ \E mode \in PowerMode_t : PowerManager_RequestMode(mode)
    \/ PowerManager_Update

SpecCli == Init /\ [][NextCli]_vars

\* The state after Log_Init, CLI_Init and the command LOG DEBUG: every log
\* line of the sampling task is transmitted.
InitSensor ==
    /\ InitCommon
    /\ s_tasks = [i \in 0 .. APP_MAX_TASKS - 1 |-> NULL]
    /\ s_taskCount = 0
    /\ regLog = <<>>
    /\ runLog = NoRunLog
    /\ s_logUart = huart2
    /\ s_minLevel = LOG_LEVEL_DEBUG
    /\ s_enabled = TRUE
    /\ s_cliUart = huart2
    /\ s_logPaused = FALSE
    /\ s_prevLogEnabled = FALSE
    /\ s_prevLogLevel = LOG_LEVEL_INFO
    /\ s_lineBuffer = LineCleared
    /\ s_lineIndex = 0
    /\ rx = <<>>
    /\ lastSampleTick_ms = U(0)
    /\ uart = CLI_Print("\r\nTask logging enabled, level=%s.\r\n", <<"DEBUG">>)
    /\ reads = 0
    /\ call = <<"CLI_HandleLine", L_LOG_DEBUG_UP>>
    /\ configured = TRUE
    /\ pausedCfg = NoCfg

\* the sampling task, run at any clock reading in any power mode, and the
\* status command
NextSensor ==
    \/ \E delta \in SampleDeltas : ClockAdvance(delta)
    \/ App_TaskSensorSample
    \/ CLI_HandleLine(L_status)
    \/ \E mode \in PowerMode_t : PowerManager_RequestMode(mode)
    \/ PowerManager_Update

SpecSensor == InitSensor /\ [][NextSensor]_vars

\* The registry of a program that has registered four tasks at tick 0, one
\* of them twice and one with period 0.
Registered4 == <<"s_heartbeatTask", "s_powerTask", "t_zeroPeriod", "s_heartbeatTask">>

InitRuns ==
    /\ InitCommon
    /\ InitIo
    /\ s_tasks = [i \in 0 .. APP_MAX_TASKS - 1 |->
                    IF i < Len(Registered4) THEN Registered4[i + 1] ELSE NULL]
    /\ s_taskCount = Len(Registered4)
    /\ regLog = Registered4
    /\ runLog = [phase |-> "first", same |-> TRUE, passes |-> <<>>]

\* A second run of the program starts from the registry the first run
\* started from: same tasks, periods, lastRun_ms values and order, the clock
\* at the same reading. The LED and the power manager are as the first run
\* left them.
SecondRun_Start ==
    /\ pc = "main"
    /\ runLog.phase = "first"
    /\ Len(runLog.passes) >= 1
    /\ runLog' = [runLog EXCEPT !.phase = "second"]
    /\ tick' = U(0)
    /\ advances' = 0
    /\ passes' = 0
    /\ lastRun_ms' = [d \in Descriptors |-> U(0)]
    /\ age' = [d \in Descriptors |-> AgeZero]
    /\ runs' = [d \in Descriptors |-> 0]
    /\ ticked' = FALSE
    /\ UNCHANGED <<regs, s_tasks, s_taskCount, pc, now_ms, idx, led, powerVars, ret,
                   ran, snap, gap, passAge, sameReading, regLog, ioVars, uart>>

\* two runs of the main loop over the same registry
NextRuns ==
    \/ \E delta \in Deltas : ClockAdvance(delta)
    \/ AppTaskManager_RunOnce
    \/ SecondRun_Start

SpecRuns == InitRuns /\ [][NextRuns]_vars

\* one run of the main loop over the same registry, held up between passes
\* for up to two and a half periods
NextSkew ==
    \/ \E delta \in SkewDeltas : ClockAdvance(delta)
    \/ AppTaskManager_RunOnce

SpecSkew == InitRuns /\ [][NextSkew]_vars

\* the command line fed byte by byte, between log calls of the tasks
NextLine ==
    \/ Log_Init(huart2)
    \/ CLI_Init(huart2)
    \/ \E keys \in Keystrokes : Uart_Receive(keys)
    \/ CLI_Process
    \/ \E level \in LogLevel_t : Log_Print(level)

SpecLine == Init /\ [][NextLine]_vars

\* the log commands of the command line
LogLines ==
    {L_log_off, L_log_error, L_LOG_WARN_UP, L_log_info, L_LOG_DEBUG_UP,
     L_log_pause, L_log_resume, L_status}

\* texts of 0 to 200 characters
PrintTexts == {[k \in 1 .. n |-> "y"] : n \in {0, 1, 127, 128, 200}}

\* the interface of the logger and of the command line, called in any
\* order: by the log commands of the command line and directly, through
\* Log_SetLevel, Log_Enable and CLI_Print
NextLog ==
    \/ Log_Init(huart2)
    \/ \E level \in LogLevel_t : Log_SetLevel(level)
    \/ \E enable \in BOOLEAN : Log_Enable(enable)
    \/ \E level \in LogLevel_t : Log_Print(level)
    \/ CLI_Init(huart2)
    \/ \E line \in LogLines : CLI_HandleLine(line)
    \/ \E text \in PrintTexts : CLI_Print_Call("%s", <<text>>)

SpecLog == Init /\ [][NextLog]_vars

\* The application after main() has called Log_Init, CLI_Init and
\* App_MainInit at tick 0: the four tasks of app_main.c are registered in
\* the order of lines 144-147, the logger is disabled (log.c, line 30) and
\* so App_MainInit has transmitted nothing.
\* a mutant of RegisteredApp: the CLI task is registered first
RegisteredApp_CliFirst == <<"s_cliTask", "s_heartbeatTask", "s_sensorTask", "s_powerTask">>

\* App_MainInit, lines 144-147
RegisteredApp == <<"s_heartbeatTask", "s_sensorTask", "s_powerTask", "s_cliTask">>

InitApp ==
    /\ InitCommon
    /\ s_tasks = [i \in 0 .. APP_MAX_TASKS - 1 |->
                    IF i < Len(RegisteredApp) THEN RegisteredApp[i + 1] ELSE NULL]
    /\ s_taskCount = Len(RegisteredApp)
    /\ regLog = RegisteredApp
    /\ runLog = NoRunLog
    /\ s_logUart = huart2
    /\ s_minLevel = LOG_LEVEL_INFO
    /\ s_enabled = s_enabled_init
    /\ s_cliUart = huart2
    /\ s_logPaused = FALSE
    /\ s_prevLogEnabled = FALSE
    /\ s_prevLogLevel = LOG_LEVEL_INFO
    /\ s_lineBuffer = LineCleared
    /\ s_lineIndex = 0
    /\ rx = <<>>
    /\ lastSampleTick_ms = U(0)
    /\ uart = <<>>
    /\ reads = 0
    /\ call = NoCall
    /\ configured = FALSE
    /\ pausedCfg = NoCfg

\* App_MainLoop: pass after pass while the clock runs. The terminal sends
\* its lines between passes: only the CLI task reads the receiver, so a
\* byte that arrives during a pass is read as one that arrived before it.
NextApp ==
    \/ \E delta \in AppDeltas : ClockAdvance(delta)
    \/ \E keys \in AppKeystrokes : pc = "main" /\ Uart_Receive(keys)
    \/ RunOnce_Begin
    \/ RunOnce_Step
    \/ RunOnce_Call
    \/ pc = "cli" /\ CLI_Process
    \/ App_TaskCli_Return
    \/ RunOnce_End

SpecApp == InitApp /\ [][NextApp]_vars

\* The processor keeps executing the call it is in: an iteration of the
\* receive loop that can be taken is taken, and so is the return.
SpecAppFair ==
    /\ SpecApp
    /\ WF_vars(pc = "cli" /\ CLI_Process)
    /\ WF_vars(App_TaskCli_Return)

\* App_MainLoop without end. The clock advances at most once between the
\* readings of two passes, by less than 2^32 ms.
Clock_Tick(delta) ==
    /\ ~ticked
    /\ Clock_Body(delta)
    /\ UNCHANGED advances

\* App_MainLoop, line 155: the next call of AppTaskManager_RunOnce
RunOnce_Loop ==
    /\ RunOnce_Enter
    /\ UNCHANGED passes

\* the pass is at the PowerManager task, which is due and would count one
\* more idle cycle than the model follows
IdleCapped ==
    /\ pc = "run"
    /\ idx < s_taskCount
    /\ s_tasks[SlotAt(idx)] = "s_powerTask"
    /\ IsDue("s_powerTask")
    /\ s_requestedMode = s_currentMode
    /\ ~Ge32(U(MaxIdleCycles - 1), s_idleCycles)

NextLoop ==
    \/ \E delta \in CoarseDeltas : Clock_Tick(delta)
    \/ \E keys \in LoopKeystrokes : pc = "main" /\ Uart_Receive(keys)
    \/ RunOnce_Loop
    \/ ~IdleCapped /\ RunOnce_Step
    \/ RunOnce_Call
    \/ pc = "cli" /\ CLI_Process
    \/ App_TaskCli_Return
    \/ RunOnce_End

\* RunOnce is called again and again, the clock keeps advancing, every
\* statement of the pass and of a task body is executed in its turn
FairLoop ==
    /\ WF_vars(\E delta \in CoarseDeltas : Clock_Tick(delta))
    /\ WF_vars(RunOnce_Loop)
    /\ WF_vars(~IdleCapped /\ RunOnce_Step)
    /\ WF_vars(RunOnce_Call)
    /\ WF_vars(pc = "cli" /\ CLI_Process)
    /\ WF_vars(App_TaskCli_Return)
    /\ WF_vars(RunOnce_End)

SpecLoop == InitApp /\ [][NextLoop]_vars /\ FairLoop

\* registries without the PowerManager task: other periods, other orders,
\* a task registered twice
Registries ==
    {<<"s_heartbeatTask", "s_sensorTask", "s_cliTask">>,
     <<"s_cliTask", "t_zeroPeriod", "s_sensorTask", "s_heartbeatTask">>,
     <<"s_sensorTask", "s_heartbeatTask", "s_sensorTask">>}

\* the application of InitApp with one of these registries
InitRegistries ==
    /\ InitCommon
    /\ \E reg \in Registries :
          /\ s_tasks = [i \in 0 .. APP_MAX_TASKS - 1 |->
                          IF i < Len(reg) THEN reg[i + 1] ELSE NULL]
          /\ s_taskCount = Len(reg)
          /\ regLog = reg
    /\ runLog = NoRunLog
    /\ s_logUart = huart2
    /\ s_minLevel = LOG_LEVEL_INFO
    /\ s_enabled = s_enabled_init
    /\ s_cliUart = huart2
    /\ s_logPaused = FALSE
    /\ s_prevLogEnabled = FALSE
    /\ s_prevLogLevel = LOG_LEVEL_INFO
    /\ s_lineBuffer = LineCleared
    /\ s_lineIndex = 0
    /\ rx = <<>>
    /\ lastSampleTick_ms = U(0)
    /\ uart = <<>>
    /\ reads = 0
    /\ call = NoCall
    /\ configured = FALSE
    /\ pausedCfg = NoCfg

SpecRegistries == InitRegistries /\ [][NextLoop]_vars /\ FairLoop

\* ---------------------------------------------------- observations
\* a pass is between two iterations of its loop, or has faulted
InPass == pc \in {"run", "fault"}

\* the loop of the pass has examined every slot and is about to return
LoopDone == pc = "run" /\ idx >= s_taskCount

\* the slots the pass has invoked, and their descriptors
RanSet == {ran[k] : k \in 1 .. Len(ran)}

RanDescs == {s_tasks[i] : i \in RanSet}

Registered == {s_tasks[i] : i \in 0 .. s_taskCount - 1} \ {NULL}

\* slot i holds the first registration of its descriptor
FirstOcc(i) == \A j \in 0 .. i - 1 : s_tasks[j] # s_tasks[i]

\* d was due at the reading of the pass, by its lastRun_ms when the pass began
DueAtBegin(d) == Ge32(Sub32(now_ms, snap[d]), period_ms(d))

\* slot i is to be invoked by the pass: its descriptor was due when the pass
\* began; a second registration of a descriptor the pass has already run
\* sees elapsed = 0, which is due only for period 0
Expected(i) ==
    /\ s_tasks[i] # NULL
    /\ DueAtBegin(s_tasks[i])
    /\ FirstOcc(i) \/ period_ms(s_tasks[i]) = U(0)

\* ---------------------------------------------------- claims
\* C1: a RunOnce pass invokes exactly the registered tasks whose elapsed time
\* (now - lastRun) mod 2^32 is at least their period, sets lastRun_ms of each
\* invoked task to the reading of the pass, and leaves every other lastRun_ms
\* as it was when the pass began.
C1_RunsExactlyDueTasks ==
    InPass =>
        /\ RanSet = {i \in 0 .. idx - 1 : Expected(i)}
        /\ Len(ran) = Cardinality(RanSet)
        /\ \A d \in Descs :
              lastRun_ms[d] = IF d \in RanDescs THEN now_ms ELSE snap[d]

\* a completed pass that invoked one registered task and skipped another
C1_Witness ==
    /\ LoopDone
    /\ \E i, j \in 0 .. s_taskCount - 1 :
          /\ i \in RanSet
          /\ j \notin RanSet
          /\ period_ms(s_tasks[i]) # U(0)
          /\ lastRun_ms[s_tasks[i]] = now_ms
          /\ lastRun_ms[s_tasks[j]] # now_ms

\* C2: elapsed time is taken modulo 2^32: whenever the real time between the
\* reading held in lastRun_ms and the reading of the pass is below 2^32 ms, the
\* pass invokes the task exactly when that real time is at least the period;
\* with period 500 and lastRun = 2^32 - 100 the task is due at 400, not at 399.
C2_WrapTolerantElapsed ==
    LoopDone =>
        /\ \A d \in Registered :
              AgeBelowWrap(gap[d]) =>
                  (d \in RanDescs <=> AgeGe(gap[d], period_ms(d)))
        /\ ( /\ "s_heartbeatTask" \in Registered
             /\ snap["s_heartbeatTask"] = UNeg(100) )
           => /\ now_ms = U(399) => "s_heartbeatTask" \notin RanDescs
              /\ now_ms = U(400) => "s_heartbeatTask" \in RanDescs

\* the period-500 task stamped at 2^32 - 100 is run by the pass that reads 400
C2_Witness ==
    /\ LoopDone
    /\ "s_heartbeatTask" \in RanDescs
    /\ snap["s_heartbeatTask"] = UNeg(100)
    /\ gap["s_heartbeatTask"] = <<0, 0, 500>>
    /\ now_ms = U(400)

\* C3: tasks due in the same pass are invoked one after another in the order
\* of their registration.
C3_RegistrationOrder ==
    InPass =>
        /\ \A k, l \in 1 .. Len(ran) : k < l => ran[k] < ran[l]
        /\ \A k \in 1 .. Len(ran) :
              ran[k] < Len(regLog) /\ s_tasks[ran[k]] = regLog[ran[k] + 1]

\* two different tasks invoked by one pass
C3_Witness ==
    /\ LoopDone
    /\ Len(ran) >= 2
    /\ s_tasks[ran[1]] # s_tasks[ran[2]]
    /\ now_ms # U(0)

\* C4: with only positive periods registered, a pass that reads the same
\* clock value as the previous pass (no tick in between) invokes nothing and
\* changes no lastRun_ms.
C4_SecondPassIdle ==
    ( /\ LoopDone
      /\ sameReading
      /\ \A d \in Registered : period_ms(d) # U(0) )
    => ran = <<>> /\ lastRun_ms = snap

\* the second of two passes at one reading, the first of which ran the heartbeat
C4_Witness ==
    /\ LoopDone
    /\ sameReading
    /\ ran = <<>>
    /\ "s_heartbeatTask" \in Registered
    /\ \A d \in Registered : period_ms(d) # U(0)
    /\ lastRun_ms["s_heartbeatTask"] = now_ms
    /\ runs["s_heartbeatTask"] = 1
    /\ led

\* C5 as claimed: a task whose period is 0 is never invoked.
C5_ZeroPeriodNeverRuns ==
    InPass => \A i \in RanSet : period_ms(s_tasks[i]) # U(0)

\* C5 amended: a period of 0 makes a task always due: every time a pass
\* examines its slot, at any clock reading, the task is invoked.
C5_ZeroPeriodAlwaysRuns ==
    InPass =>
        \A i \in 0 .. idx - 1 :
            (s_tasks[i] # NULL /\ period_ms(s_tasks[i]) = U(0)) => i \in RanSet

\* a pass that invoked a period-0 task twice, through two registrations
C5_Witness ==
    /\ LoopDone
    /\ \E i, j \in RanSet :
          /\ i # j
          /\ s_tasks[i] = s_tasks[j]
          /\ period_ms(s_tasks[i]) = U(0)

\* C6: RegisterTask returns -1 for a null task and -2 for a task offered to a
\* full registry (8 tasks); a rejected call changes nothing of the registry,
\* the task count, any lastRun_ms or the rest of the scheduler.
C6_RejectedRegistration ==
    [][ \A task \in Descs \cup {NULL} :
          AppTaskManager_RegisterTask(task) =>
            /\ task = NULL =>
                 ret' = <<"AppTaskManager_RegisterTask", -1>>
            /\ (task # NULL /\ s_taskCount = APP_MAX_TASKS) =>
                 ret' = <<"AppTaskManager_RegisterTask", -2>>
            /\ (task = NULL \/ s_taskCount = APP_MAX_TASKS) =>
                 UNCHANGED <<tick, schedVars, led, powerVars, regLog>> ]_vars

\* a ninth task has just been rejected by a registry whose tasks have run
C6_Witness ==
    /\ pc = "main"
    /\ s_taskCount = APP_MAX_TASKS
    /\ ret = <<"AppTaskManager_RegisterTask", -2>>
    /\ runs["s_heartbeatTask"] > 0
    /\ runs["s_powerTask"] > 0

\* C7 as claimed: no sequence of RegisterTask and RunOnce calls leads RunOnce
\* to call through a NULL function pointer.
C7_NoNullCallableInvoked == pc # "fault"

\* C8: the task count stays within 0..8, slots 0..count-1 hold the registered
\* descriptors in registration order, the other slots are empty, and a pass
\* invokes registered slots only (none after Init).
C8_RegistryWellFormed ==
    /\ s_taskCount \in 0 .. APP_MAX_TASKS
    /\ s_taskCount = Len(regLog)
    /\ \A i \in 0 .. APP_MAX_TASKS - 1 :
          s_tasks[i] = IF i < s_taskCount THEN regLog[i + 1] ELSE NULL
    /\ InPass => \A i \in RanSet : i < s_taskCount

\* a full registry: the eighth registration filled the last slot
C8_Witness ==
    /\ s_taskCount = APP_MAX_TASKS
    /\ \A i \in 0 .. APP_MAX_TASKS - 1 : s_tasks[i] # NULL
    /\ regs > 0

\* C9: registration stamps lastRun_ms with the clock reading, so a task with
\* period > 0 is first invoked by the first pass whose reading is at least
\* period ms after the registration, and by no earlier pass.
C9_FirstRunAfterFullPeriod ==
    InPass =>
        \A i \in 0 .. idx - 1 :
            LET d == s_tasks[i]
            IN  (d # NULL /\ period_ms(d) # U(0) /\ AgeBelowWrap(gap[d])) =>
                    /\ runs[d] = 0 => ~AgeGe(gap[d], period_ms(d))
                    /\ (runs[d] = 1 /\ d \in RanDescs) => AgeGe(gap[d], period_ms(d))

\* a task registered shortly before the counter wraps and run for the first
\* time by the second pass, which reads the clock 500 ms after the registration
C9_Witness ==
    /\ LoopDone
    /\ passes = 2
    /\ "s_powerTask" \in RanDescs
    /\ runs["s_powerTask"] = 1
    /\ gap["s_powerTask"] = <<0, 0, 500>>
    /\ snap["s_powerTask"] = UNeg(100)
    /\ now_ms = U(400)

\* C10: RequestMode never changes the current mode; the current mode changes
\* only across a PowerManager_Update call, and then to the mode requested at
\* that moment; GetCurrentMode returns the current mode; the requested mode
\* is always one of the four modes.
C10_ModeChangesOnlyOnUpdate ==
    /\ [](s_requestedMode \in PowerMode_t /\ s_currentMode \in PowerMode_t)
    /\ [][ \A mode \in PowerMode_t :
             PowerManager_RequestMode(mode) => s_currentMode' = s_currentMode ]_vars
    /\ [][ PowerManager_GetCurrentMode =>
             ret' = <<"PowerManager_GetCurrentMode", s_currentMode>> ]_vars
    /\ [][ (s_currentMode' # s_currentMode /\ ~PowerManager_Init) =>
             (PowerManager_Update /\ s_currentMode' = s_requestedMode) ]_vars

\* GetCurrentMode still reports Stop while Idle has been requested
C10_Witness ==
    /\ s_currentMode = POWER_MODE_STOP
    /\ s_requestedMode = POWER_MODE_IDLE
    /\ ret = <<"PowerManager_GetCurrentMode", POWER_MODE_STOP>>

\* C11: PowerManager_Update with requested # current sets current to the
\* requested mode and the idle-cycle counter to 0; with requested = current it
\* leaves both modes unchanged and adds exactly 1 to the counter. The
\* requested mode is never changed by an update.
C11_UpdateAppliesOrCounts ==
    [][ PowerManager_Update =>
          /\ s_requestedMode' = s_requestedMode
          /\ s_requestedMode # s_currentMode =>
                (s_currentMode' = s_requestedMode /\ s_idleCycles' = <<0, 0>>)
          /\ s_requestedMode = s_currentMode =>
                /\ s_currentMode' = s_currentMode
                /\ s_idleCycles'[1] = s_idleCycles[1]
                /\ s_idleCycles'[2] = s_idleCycles[2] + 1 ]_vars

\* Idle was requested from Active and applied by the first update; two
\* further updates have counted two idle cycles
C11_Witness ==
    /\ call = <<"PowerManager_Update">>
    /\ s_currentMode = POWER_MODE_IDLE
    /\ s_requestedMode = POWER_MODE_IDLE
    /\ s_idleCycles = <<0, 2>>

\* ---------------------------------------------------- observations of the UART
\* the log lines among the transmissions u
LogEntries(u) == {k \in 1 .. Len(u) : u[k][1] = "LOG"}

\* the CLI responses among the transmissions u
CliEntries(u) == {k \in 1 .. Len(u) : u[k][1] = "CLI" /\ Len(u[k]) = 3}

\* an initialised, enabled logger lets a message of this level through
GateOpen(level) == s_logUart # NULL /\ s_enabled /\ s_minLevel <= level

\* C12: PowerManager_RequestMode(m) leaves m as the requested mode; when m
\* is already the requested mode the call changes no state and emits no log
\* entry, so a second RequestMode(m) adds nothing to the first. A changed
\* request is logged once when the gate lets Info through. A pmode command
\* that repeats the requested mode emits no log entry either.
C12_RequestModeIdempotent ==
    /\ [][ \A mode \in PowerMode_t :
             (call' = <<"PowerManager_RequestMode", mode>> /\
              PowerManager_RequestMode(mode)) =>
               /\ s_requestedMode' = mode
               /\ mode = s_requestedMode =>
                     (uart' = <<>> /\ UNCHANGED <<powerVars, logVars, cliVars, sensVars>>)
               /\ mode # s_requestedMode =>
                     Cardinality(LogEntries(uart')) =
                        IF GateOpen(LOG_LEVEL_INFO) THEN 1 ELSE 0 ]_vars
    /\ [][ \A line \in Lines :
             (call' = <<"CLI_HandleLine", line>> /\ CLI_HandleLine(line) /\
              s_requestedMode' = s_requestedMode) =>
                LogEntries(uart') = {} ]_vars

\* Idle requested a second time while the logger lets Info through: the
\* call has emitted nothing
C12_Witness ==
    /\ call = <<"PowerManager_RequestMode", POWER_MODE_IDLE>>
    /\ s_requestedMode = POWER_MODE_IDLE
    /\ s_currentMode = POWER_MODE_ACTIVE
    /\ GateOpen(LOG_LEVEL_INFO)
    /\ uart = <<>>

\* C13: the sampling period is a total function of the four power modes,
\* Active 1000 ms, Idle 5000 ms, Sleep 30000 ms, Stop 0; the sampling task
\* and the status command use the same mapping: status reports the period of
\* the current mode, and the sampling task reads only in a mode whose period
\* is not 0 and reports sampling as disabled in the others.
C13_PeriodOf ==
    [mode \in PowerMode_t |->
        CASE mode = POWER_MODE_ACTIVE -> <<0, 1000>>
          [] mode = POWER_MODE_IDLE   -> <<0, 5000>>
          [] mode = POWER_MODE_SLEEP  -> <<0, 30000>>
          [] mode = POWER_MODE_STOP   -> <<0, 0>>]

C13_SamplingPolicy ==
    /\ \A mode \in PowerMode_t :
          /\ SamplePeriod(mode) = C13_PeriodOf[mode]
          /\ StatusPeriod(mode) = SamplePeriod(mode)
    /\ call = <<"CLI_HandleLine", L_status>> =>
          /\ Len(uart) = 5
          /\ uart[4][3] = <<s_currentMode>>
          /\ uart[5][3] = <<C13_PeriodOf[s_currentMode]>>
    /\ call = <<"App_TaskSensorSample">> =>
          /\ reads = 1 => C13_PeriodOf[s_currentMode] # <<0, 0>>
          /\ C13_PeriodOf[s_currentMode] = <<0, 0>> =>
                (Len(uart) >= 1 /\ uart[1][3] = LOG_LEVEL_DEBUG)

\* status issued in Sleep, with Stop already requested, reports 30000 ms
C13_Witness ==
    /\ call = <<"CLI_HandleLine", L_status>>
    /\ s_currentMode = POWER_MODE_SLEEP
    /\ s_requestedMode = POWER_MODE_STOP
    /\ <<uart[5]>> = CLI_Print("  Sensor sample period: %lu ms\r\n", <<<<0, 30000>>>>)

\* C14: a run of the sampling task calls the read capability exactly when
\* the period p of the current mode is not 0 and (now - lastSample) mod 2^32
\* is at least p; lastSample becomes now exactly when it reads. In Stop it
\* never reads, changes no sampling state and logs no error.
C14_Elapsed == Sub32(tick, lastSampleTick_ms)

C14_AtLeast(a, b) == a[1] > b[1] \/ (a[1] = b[1] /\ a[2] >= b[2])

C14_SamplesWhenDue ==
    [][ (call' = <<"App_TaskSensorSample">> /\ App_TaskSensorSample) =>
          LET p == C13_PeriodOf[s_currentMode]
              due == p # <<0, 0>> /\ C14_AtLeast(C14_Elapsed, p)
          IN  /\ reads' = (IF due THEN 1 ELSE 0)
              /\ lastSampleTick_ms' = (IF due THEN tick ELSE lastSampleTick_ms)
              /\ UNCHANGED <<powerVars, logVars, cliVars>>
              /\ \A k \in LogEntries(uart') : uart'[k][3] # LOG_LEVEL_ERROR
              /\ s_currentMode = POWER_MODE_STOP =>
                    /\ reads' = 0
                    /\ lastSampleTick_ms' = lastSampleTick_ms
                    /\ \A k \in LogEntries(uart') : uart'[k][3] = LOG_LEVEL_DEBUG ]_vars

\* the task sampled shortly before the counter wrapped and samples again
\* 1000 ms later, at reading 500, in Active
C14_Witness ==
    /\ call = <<"App_TaskSensorSample">>
    /\ s_currentMode = POWER_MODE_ACTIVE
    /\ reads = 1
    /\ tick = <<0, 500>>
    /\ lastSampleTick_ms = <<0, 500>>
    /\ advances = 2

\* C15: once the logger is initialised, a Log_Print call transmits its
\* message exactly when logging is enabled and the level of the message is
\* at least the minimum level (Debug < Info < Warn < Error); a filtered
\* message transmits nothing; no call changes any state.
C15_Rank(level) ==
    CASE level = LOG_LEVEL_DEBUG -> 1
      [] level = LOG_LEVEL_INFO  -> 2
      [] level = LOG_LEVEL_WARN  -> 3
      [] level = LOG_LEVEL_ERROR -> 4

C15_EmitsIffEnabledAndAtLeastMin ==
    [][ \A level \in LogLevel_t :
          (call' = <<"Log_Print", level>> /\ Log_Print(level)) =>
            LET emits == s_enabled /\ C15_Rank(level) >= C15_Rank(s_minLevel)
            IN  /\ UNCHANGED <<logVars, cliVars, powerVars, sensVars>>
                /\ s_logUart = NULL => uart' = <<>>
                /\ (s_logUart # NULL /\ ~emits) => uart' = <<>>
                /\ (s_logUart # NULL /\ emits) =>
                      /\ Len(uart') >= 1
                      /\ uart'[1] = <<"LOG", tick, level, "message", <<>>>>
                      /\ Cardinality(LogEntries(uart')) = 1 ]_vars

\* a Warn message passed by a logger whose minimum level is Warn, enabled
\* through Log_Enable while a pause of the command line is in force
C15_Witness ==
    /\ call = <<"Log_Print", LOG_LEVEL_WARN>>
    /\ s_logUart # NULL
    /\ s_enabled
    /\ s_logPaused
    /\ s_minLevel = LOG_LEVEL_WARN
    /\ LogEntries(uart) # {}

\* C16, as stated: at process start, before any command or setter call,
\* current and requested mode are Active, logging is enabled and the minimum
\* level is Info.
C16_StartsEnabled ==
    ~configured =>
        /\ s_currentMode = POWER_MODE_ACTIVE
        /\ s_requestedMode = POWER_MODE_ACTIVE
        /\ s_enabled
        /\ s_minLevel = LOG_LEVEL_INFO

\* C16, amended: at process start, and until the first command or setter
\* call, current and requested mode are Active, logging is disabled, no
\* pause is in force and the minimum level is Info.
C16_StartsDisabled ==
    ~configured =>
        /\ s_currentMode = POWER_MODE_ACTIVE
        /\ s_requestedMode = POWER_MODE_ACTIVE
        /\ ~s_enabled
        /\ ~s_logPaused
        /\ s_minLevel = LOG_LEVEL_INFO

\* logger and CLI have their UART and the power manager has been updated,
\* but no command or setter has been called yet
C16_Witness ==
    /\ ~configured
    /\ s_logUart = huart2
    /\ s_cliUart = huart2
    /\ call = <<"PowerManager_Update">>
    /\ s_idleCycles = <<0, 2>>

\* C17: from any state, paused or not, a log error, log warn, log info or
\* log debug command, in any letter case, leaves logging enabled, the
\* minimum level equal to the named level and the pause flag clear, so that
\* an initialised logger then passes exactly the levels at or above the named
\* one; log off leaves logging disabled and the pause flag clear and keeps
\* the level. The power state is not touched.
C17_Named ==
    {<<L_log_error, LOG_LEVEL_ERROR>>, <<L_LOG_WARN_UP, LOG_LEVEL_WARN>>,
     <<L_log_info, LOG_LEVEL_INFO>>, <<L_LOG_DEBUG_UP, LOG_LEVEL_DEBUG>>}

C17_LogLevelCommands ==
    /\ [][ \A cmd \in C17_Named :
             (call' = <<"CLI_HandleLine", cmd[1]>> /\ CLI_HandleLine(cmd[1])) =>
               /\ s_enabled'
               /\ s_minLevel' = cmd[2]
               /\ ~s_logPaused'
               /\ \A level \in LogLevel_t :
                     Log_Passes(level)' <=>
                        (s_logUart # NULL /\ C15_Rank(level) >= C15_Rank(cmd[2]))
               /\ UNCHANGED <<powerVars, s_logUart>> ]_vars
    /\ [][ (call' = <<"CLI_HandleLine", L_log_off>> /\ CLI_HandleLine(L_log_off)) =>
               /\ ~s_enabled'
               /\ ~s_logPaused'
               /\ s_minLevel' = s_minLevel
               /\ \A level \in LogLevel_t : ~Log_Passes(level)'
               /\ UNCHANGED <<powerVars, s_logUart>> ]_vars

\* LOG DEBUG, typed in capitals, after an earlier pause had saved an enabled
\* Error configuration
C17_Witness ==
    /\ call = <<"CLI_HandleLine", L_LOG_DEBUG_UP>>
    /\ s_logUart = huart2
    /\ s_enabled
    /\ s_minLevel = LOG_LEVEL_DEBUG
    /\ ~s_logPaused
    /\ s_prevLogEnabled
    /\ s_prevLogLevel = LOG_LEVEL_ERROR

\* C18: an accepted log pause disables logging, whatever the configuration
\* (enabled flag e, level l) in effect; the log resume that ends this pause,
\* after any number of help, status, pmode and unknown commands, log calls
\* and power manager updates, restores enabled = e and level = l and clears
\* the pause flag. pausedCfg records <<e, l>> at the step that sets the
\* pause flag and is kept until the flag is cleared.
C18_PauseLines == {L_log_pause, L_LOG_PAUSE_SP}

C18_PauseResumeRestores ==
    /\ [][ \A line \in C18_PauseLines :
             (call' = <<"CLI_HandleLine", line>> /\ CLI_HandleLine(line) /\
              ~s_logPaused) =>
               /\ ~s_enabled'
               /\ s_logPaused'
               /\ s_minLevel' = s_minLevel
               /\ pausedCfg' = <<s_enabled, s_minLevel>> ]_vars
    /\ [][ (s_logPaused /\ s_logPaused') => pausedCfg' = pausedCfg ]_vars
    /\ [][ (call' = <<"CLI_HandleLine", L_log_resume>> /\
            CLI_HandleLine(L_log_resume) /\ s_logPaused) =>
               /\ s_enabled' = pausedCfg[1]
               /\ s_minLevel' = pausedCfg[2]
               /\ ~s_logPaused' ]_vars

\* log resume has just restored an enabled Debug configuration, with Idle
\* requested and applied meanwhile
C18_Witness ==
    /\ call = <<"CLI_HandleLine", L_log_resume>>
    /\ uart = CLI_Print("\r\nTask logging resumed.\r\n", <<>>)
    /\ s_enabled
    /\ s_minLevel = LOG_LEVEL_DEBUG
    /\ ~s_logPaused
    /\ s_currentMode = POWER_MODE_IDLE

\* C19: a log pause issued while a pause is in force answers 'already
\* paused' and changes neither the enabled flag, the level, the pause flag
\* nor the saved snapshot; a log resume issued while no pause is in force
\* answers 'not paused' and changes neither the enabled flag nor the level.
C19_MisuseChangesNothing ==
    /\ [][ \A line \in C18_PauseLines :
             (call' = <<"CLI_HandleLine", line>> /\ CLI_HandleLine(line) /\
              s_logPaused) =>
               /\ uart' = <<<<"CLI", "\r\nTask logging is already paused.\r\n", <<>>>>>>
               /\ s_enabled' = s_enabled
               /\ s_minLevel' = s_minLevel
               /\ s_logPaused' = s_logPaused
               /\ s_prevLogEnabled' = s_prevLogEnabled
               /\ s_prevLogLevel' = s_prevLogLevel
               /\ pausedCfg' = pausedCfg ]_vars
    /\ [][ (call' = <<"CLI_HandleLine", L_log_resume>> /\
            CLI_HandleLine(L_log_resume) /\ ~s_logPaused) =>
               /\ uart' = <<<<"CLI", "\r\nTask logging is not paused.\r\n", <<>>>>>>
               /\ s_enabled' = s_enabled
               /\ s_minLevel' = s_minLevel
               /\ s_logPaused' = s_logPaused ]_vars

\* a second log pause, refused while the snapshot of the first (enabled,
\* Warn) is kept
C19_Witness ==
    /\ call = <<"CLI_HandleLine", L_LOG_PAUSE_SP>>
    /\ uart = <<<<"CLI", "\r\nTask logging is already paused.\r\n", <<>>>>>>
    /\ s_logPaused
    /\ ~s_enabled
    /\ s_prevLogEnabled
    /\ s_prevLogLevel = LOG_LEVEL_WARN
    /\ pausedCfg = <<TRUE, LOG_LEVEL_WARN>>

\* C20: pmode active, idle, sleep or stop requests the named mode and
\* changes nothing else: current mode, idle-cycle counter and log state are
\* as before, and the response echoes the argument. pmode with another
\* argument answers 'unknown power mode' and leaves requested mode, current
\* mode, idle-cycle counter and log state unchanged.
C20_Named ==
    {<<L_pmode_active, POWER_MODE_ACTIVE>>, <<L_pmode_idle, POWER_MODE_IDLE>>,
     <<L_PMODE_SLEEP_UP, POWER_MODE_SLEEP>>, <<L_pmode_stop, POWER_MODE_STOP>>}

C20_LogState == <<s_logUart, s_minLevel, s_enabled, s_logPaused, s_prevLogEnabled, s_prevLogLevel>>

C20_PmodeRequestsOnly ==
    /\ [][ \A cmd \in C20_Named :
             (call' = <<"CLI_HandleLine", cmd[1]>> /\ CLI_HandleLine(cmd[1])) =>
               /\ s_requestedMode' = cmd[2]
               /\ s_currentMode' = s_currentMode
               /\ s_idleCycles' = s_idleCycles
               /\ C20_LogState' = C20_LogState
               /\ Len(uart') >= 1
               /\ uart'[Len(uart')][2] = "\r\nRequested power mode change: %s\r\n" ]_vars
    /\ [][ (call' = <<"CLI_HandleLine", L_pmode_fast>> /\ CLI_HandleLine(L_pmode_fast)) =>
               /\ uart' = <<<<"CLI", "\r\nUnknown power mode '%s'. Type 'help'.\r\n",
                              <<<<"f", "a", "s", "t">>>>>>>>
               /\ s_requestedMode' = s_requestedMode
               /\ s_currentMode' = s_currentMode
               /\ s_idleCycles' = s_idleCycles
               /\ C20_LogState' = C20_LogState ]_vars

\* pmode fast refused while Sleep is requested and Idle is the current mode
C20_Witness ==
    /\ call = <<"CLI_HandleLine", L_pmode_fast>>
    /\ Len(uart) = 1
    /\ uart[1][2] = "\r\nUnknown power mode '%s'. Type 'help'.\r\n"
    /\ s_requestedMode = POWER_MODE_SLEEP
    /\ s_currentMode = POWER_MODE_IDLE

\* ---------------------------------------------------- unknown input
C21_Unknown == {L_frobnicate, L_log_bogus, L_log_bare, L_pmode_empty, L_pmode_fast}

\* the response that names the offending input
C21_Response(line) ==
    CASE line = L_frobnicate ->
           CLI_Print("\r\nUnknown command '%s'. Type 'help'.\r\n", <<L_frobnicate>>)
      [] line = L_log_bare ->
           CLI_Print("\r\nUnknown command '%s'. Type 'help'.\r\n", <<<<"l", "o", "g">>>>)
      [] line = L_pmode_empty ->
           CLI_Print("\r\nUnknown command '%s'. Type 'help'.\r\n",
                     <<<<"p", "m", "o", "d", "e">>>>)
      [] line = L_log_bogus ->
           CLI_Print("\r\nUnknown log option '%s'. Type 'help'.\r\n",
                     <<<<"b", "o", "g", "u", "s">>>>)
      [] line = L_pmode_fast ->
           CLI_Print("\r\nUnknown power mode '%s'. Type 'help'.\r\n",
                     <<<<"f", "a", "s", "t">>>>)

\* C21: a submitted line that matches no command (frobnicate, log alone,
\* log with an unknown option, pmode without or with an unknown mode)
\* transmits exactly one response, the one naming the offending input, and
\* leaves the log state (enabled flag, level, pause flag, snapshot) and the
\* power state (current mode, requested mode, idle counter) unchanged.
C21_UnknownChangesNothing ==
    [][ \A line \in C21_Unknown :
          (call' = <<"CLI_HandleLine", line>> /\ CLI_HandleLine(line)) =>
            /\ uart' = C21_Response(line)
            /\ UNCHANGED <<logVars, s_logPaused, s_prevLogEnabled, s_prevLogLevel,
                           powerVars>> ]_vars

\* frobnicate has been answered while a pause is in force and a mode change
\* is pending
C21_Witness ==
    /\ call = <<"CLI_HandleLine", L_frobnicate>>
    /\ uart = C21_Response(L_frobnicate)
    /\ s_logPaused
    /\ s_prevLogEnabled
    /\ s_requestedMode # s_currentMode

\* ---------------------------------------------------- answers
\* the commands of the grammar, after trimming and lowering
C22_Commands ==
    {STR_help, STR_status} \cup
    {STR_log_ \o arg : arg \in {STR_off, STR_error, STR_warn, STR_info, STR_debug,
                                STR_pause, STR_resume}} \cup
    {STR_pmode_ \o arg : arg \in {STR_active, STR_idle, STR_sleep, STR_stop}}

\* the line in the buffer is a command: the command word, and for log and
\* pmode one argument after any number of blanks
C22_Matches(line) ==
    LET str == CLI_Normalize(line)
    IN  \/ str \in C22_Commands
        \/ strncmp0(str, STR_log_) /\ (STR_log_ \o CLI_Trim(After(str, 4))) \in C22_Commands
        \/ strncmp0(str, STR_pmode_) /\
               (STR_pmode_ \o CLI_Trim(After(str, 6))) \in C22_Commands

\* CLI_Process has received Enter with at least one character buffered
C22_Submit ==
    /\ s_lineIndex > 0
    /\ call' \in {<<"CLI_Process", CR, <<CLI_Line>>>>, <<"CLI_Process", LF, <<CLI_Line>>>>}
    /\ CLI_Process

\* a response message: one CLI_Print transmission
C22_IsResponse(e) == Len(e) = 3 /\ e[1] = "CLI"

C22_UnknownFormats ==
    {"\r\nUnknown command '%s'. Type 'help'.\r\n",
     "\r\nUnknown log option '%s'. Type 'help'.\r\n",
     "\r\nUnknown power mode '%s'. Type 'help'.\r\n"}

\* C22 as stated: every line submitted with at least one buffered character
\* that matches no command yields a response message before the prompt is
\* shown again.
C22_EveryLineAnswered ==
    [][ (C22_Submit /\ ~C22_Matches(CLI_Line)) =>
          /\ Len(uart') >= 3
          /\ <<uart'[Len(uart')]>> = CLI_PrintPrompt
          /\ \E k \in 2 .. Len(uart') - 1 : C22_IsResponse(uart'[k]) ]_vars

\* C22, amended: every submitted line that holds a character other than
\* blank and tab is answered before the prompt is shown again: the line is
\* echoed with a line break, then come the transmissions of the command, the
\* last of them a response message, then the prompt; for a line that matches
\* no command the response is the one unknown-input message. A line of
\* blanks and tabs only is dropped silently: line break, then the prompt.
C22_NonBlankLineAnswered ==
    [][ C22_Submit =>
          /\ <<uart'[1]>> = CLI_SendString("\r\n")
          /\ <<uart'[Len(uart')]>> = CLI_PrintPrompt
          /\ IF Len(CLI_Normalize(CLI_Line)) = 0
             THEN uart' = CLI_SendString("\r\n") \o CLI_PrintPrompt
             ELSE /\ Len(uart') >= 3
                  /\ C22_IsResponse(uart'[Len(uart') - 1])
                  /\ ~C22_Matches(CLI_Line) =>
                        /\ Len(uart') = 3
                        /\ uart'[2][2] \in C22_UnknownFormats ]_vars

\* the line "~" (typed as "~ ") has been answered as an unknown command
C22_Witness ==
    /\ call = <<"CLI_Process", CR, <<<<"~", " ">>>>>>
    /\ uart = CLI_SendString("\r\n") \o
                CLI_Print("\r\nUnknown command '%s'. Type 'help'.\r\n", <<<<"~">>>>) \o
                CLI_PrintPrompt
    /\ s_lineIndex = 0

\* ---------------------------------------------------- status
\* C23: the status command changes no state and reports the enabled flag,
\* the minimum level, the current power mode and the period the sampling
\* task uses in that mode; while a requested mode waits for the next
\* PowerManager_Update it reports the mode still in force and its period.
C23_StatusReportsCurrent ==
    [][ (call' = <<"CLI_HandleLine", L_status>> /\ CLI_HandleLine(L_status)) =>
          /\ UNCHANGED <<logVars, cliVars, powerVars, sensVars>>
          /\ uart' = CLI_Print("\r\nStatus:\r\n", <<>>) \o
                       CLI_Print("  Task logging: %s\r\n",
                                 <<IF s_enabled THEN "ENABLED" ELSE "DISABLED">>) \o
                       CLI_Print("  LogLevel: %d (0=DEBUG,1=INFO,2=WARN,3=ERROR)\r\n",
                                 <<s_minLevel>>) \o
                       CLI_Print("  PowerMode: %d (0=ACTIVE,1=IDLE,2=SLEEP,3=STOP)\r\n",
                                 <<s_currentMode>>) \o
                       CLI_Print("  Sensor sample period: %lu ms\r\n",
                                 <<SamplePeriod(s_currentMode)>>) ]_vars

\* status has been answered in Idle mode while Sleep is requested and not
\* yet applied: it reports mode 1 and 5000 ms
C23_Witness ==
    /\ call = <<"CLI_HandleLine", L_status>>
    /\ s_currentMode = POWER_MODE_IDLE
    /\ s_requestedMode = POWER_MODE_SLEEP
    /\ Len(uart) = 5
    /\ uart[4][3] = <<POWER_MODE_IDLE>>
    /\ uart[5][3] = <<U(5000)>>

\* ---------------------------------------------------- the line buffer
\* the characters of the printable bytes
C24_PrintableChars == {Printable[k] : k \in 1 .. Len(Printable)}

\* the byte the last CLI_Process iteration received is neither Enter nor an
\* erase byte nor printable
C24_IsControl(ch) == ch \notin {CR, LF, BS, DEL} /\ ~(ch >= 32 /\ ch <= 126)

\* C24: the write index stays within 0 .. 63; the buffer holds printable
\* characters (bytes 32 to 126) below the index and terminators from the
\* index on; a printable byte that arrives when 63 characters are buffered
\* is dropped (buffer and index unchanged, nothing echoed); a control byte
\* other than Enter and the erase bytes is ignored.
C24_LineBufferBounded ==
    /\ [](/\ s_lineIndex \in 0 .. CLI_MAX_LINE_LENGTH - 1
          /\ \A i \in 0 .. CLI_MAX_LINE_LENGTH - 1 :
                IF i < s_lineIndex THEN s_lineBuffer[i] \in C24_PrintableChars
                ELSE s_lineBuffer[i] = NUL)
    /\ [][ (Len(rx) > 0 /\ call' = <<"CLI_Process", Head(rx), <<>>>> /\ CLI_Process) =>
            /\ (Head(rx) >= 32 /\ Head(rx) <= 126 /\ s_lineIndex = 63) =>
                  (UNCHANGED <<s_lineBuffer, s_lineIndex>> /\ uart' = <<>>)
            /\ (Head(rx) >= 32 /\ Head(rx) <= 126 /\ s_lineIndex < 63) =>
                  /\ s_lineIndex' = s_lineIndex + 1
                  /\ s_lineBuffer' = [s_lineBuffer EXCEPT ![s_lineIndex] = Chr(Head(rx))]
            /\ C24_IsControl(Head(rx)) =>
                  (UNCHANGED <<s_lineBuffer, s_lineIndex, logVars, powerVars>> /\
                   uart' = <<>>) ]_vars

\* 63 characters are buffered and the 65th printable byte of the line has
\* just been dropped
C24_Witness ==
    /\ s_lineIndex = CLI_MAX_LINE_LENGTH - 1
    /\ s_lineBuffer[CLI_MAX_LINE_LENGTH - 2] = "p"
    /\ s_lineBuffer[CLI_MAX_LINE_LENGTH - 1] = NUL
    /\ call = <<"CLI_Process", Ord("z"), <<>>>>
    /\ uart = <<>>
    /\ rx = <<CR>>

\* ---------------------------------------------------- Enter
\* C25: on carriage return or newline with a non-empty buffer the buffered
\* line, whatever it holds, is handed to CLI_HandleLine once, between the
\* line break and the prompt, and the buffer and the write index are cleared;
\* on an empty buffer nothing is handed over, no state changes and only the
\* prompt is transmitted. So the LF of a CR LF pair finds the buffer empty and
\* dispatches nothing, and the next line starts from a cleared buffer.
C25_EnterDispatchesOnce ==
    [][ (Len(rx) > 0 /\ Head(rx) \in {CR, LF} /\ call'[1] = "CLI_Process" /\
         CLI_Process) =>
          IF s_lineIndex > 0
          THEN /\ call'[3] = <<CLI_Line>>
               /\ s_lineIndex' = 0
               /\ s_lineBuffer' = LineCleared
               /\ <<uart'[1]>> = CLI_SendString("\r\n")
               /\ <<uart'[Len(uart')]>> = CLI_PrintPrompt
          ELSE /\ call'[3] = <<>>
               /\ uart' = CLI_PrintPrompt
               /\ UNCHANGED <<s_lineBuffer, s_lineIndex, logVars, s_logPaused,
                              s_prevLogEnabled, s_prevLogLevel, powerVars>> ]_vars

\* the CR of "pmode active" CR LF has dispatched the line and cleared the
\* buffer; the LF is still to come
C25_Witness ==
    /\ call = <<"CLI_Process", CR, <<L_pmode_active>>>>
    /\ rx = <<LF>>
    /\ s_lineIndex = 0
    /\ s_lineBuffer = LineCleared
    /\ s_requestedMode = POWER_MODE_ACTIVE

\* ---------------------------------------------------- redraw after a log line
\* the redraw of the prompt followed by the partially typed input
C26_Redraw(partial) ==
    CLI_SendString("\r> ") \o
    (IF Len(partial) > 0 THEN <<<<"CLI", partial>>>> ELSE <<>>)

\* a transmitted log line
C26_IsLogLine(e) == Len(e) = 5 /\ e[1] = "LOG"

\* C26: after every emitted log line CLI_OnExternalOutput runs once and
\* redraws the prompt followed by exactly the partially typed input, the
\* characters received since the last Enter and not yet submitted. A log
\* line of a task finds the characters buffered so far; a log line emitted
\* while a submitted line is executed finds nothing typed, so the prompt is
\* followed directly by the response of the command. A filtered message
\* transmits nothing.
C26_RedrawShowsPartialInput ==
    [][ /\ \A level \in LogLevel_t :
             (call' = <<"Log_Print", level>> /\ Log_Print(level)) =>
               IF GateOpen(level)
               THEN /\ Len(uart') >= 1
                    /\ C26_IsLogLine(uart'[1])
                    /\ SubSeq(uart', 2, Len(uart')) =
                          (IF s_cliUart = NULL THEN <<>> ELSE C26_Redraw(CLI_Line))
               ELSE uart' = <<>>
        /\ (Len(rx) > 0 /\ Head(rx) \in {CR, LF} /\ s_lineIndex > 0 /\
            call' = <<"CLI_Process", Head(rx), <<CLI_Line>>>> /\ CLI_Process) =>
               \A k \in 1 .. Len(uart') :
                 C26_IsLogLine(uart'[k]) =>
                   /\ k + 2 <= Len(uart')
                   /\ <<uart'[k + 1]>> = CLI_SendString("\r> ")
                   /\ Len(uart'[k + 2]) = 3 ]_vars

\* ---------------------------------------------------- responses and the log gate
\* a CLI_Print transmission
C27_IsResponse(e) == Len(e) = 3 /\ e[1] = "CLI"

\* the first format of the response of each command, whatever the log state
C27_FirstFormat(line) ==
    CASE line = L_help -> {"\r\nAvailable commands:\r\n"}
      [] line = L_status -> {"\r\nStatus:\r\n"}
      [] line = L_log_off -> {"\r\nTask logging disabled.\r\n"}
      [] line \in {L_log_error, L_LOG_WARN_UP, L_log_info, L_LOG_DEBUG_UP} ->
           {"\r\nTask logging enabled, level=%s.\r\n"}
      [] line \in {L_log_pause, L_LOG_PAUSE_SP} ->
           {"\r\nTask logging paused. Use 'log resume' to restore.\r\n",
            "\r\nTask logging is already paused.\r\n"}
      [] line = L_log_resume ->
           {"\r\nTask logging resumed.\r\n", "\r\nTask logging is not paused.\r\n"}
      [] line = L_log_bogus -> {"\r\nUnknown log option '%s'. Type 'help'.\r\n"}
      [] line \in {L_pmode_active, L_pmode_idle, L_PMODE_SLEEP_UP, L_pmode_stop} ->
           {"\r\nRequested power mode change: %s\r\n"}
      [] line = L_pmode_fast -> {"\r\nUnknown power mode '%s'. Type 'help'.\r\n"}
      [] OTHER -> {"\r\nUnknown command '%s'. Type 'help'.\r\n"}

\* the transmissions of the CLI itself: those that are neither a log line
\* nor the redraw that follows a log line
C27_Own(u) ==
    SelectSeq(u, LAMBDA e : C27_IsResponse(e))

\* C27: the response of a command does not pass through the gate of the
\* logger: every command line, in every log state (disabled, paused, any
\* minimum level, also the state the command itself sets), transmits its
\* response; log off and log pause are themselves answered.
C27_ResponsesNotGated ==
    [][ \A line \in Lines \ {L_blank} :
          (call' = <<"CLI_HandleLine", line>> /\ CLI_HandleLine(line)) =>
            /\ Len(C27_Own(uart')) >= 1
            /\ C27_Own(uart')[1][2] \in C27_FirstFormat(line)
            /\ C27_IsResponse(uart'[Len(uart')]) ]_vars

\* help has been answered in full while logging is paused and disabled at
\* minimum level Error
C27_Witness ==
    /\ call = <<"CLI_HandleLine", L_help>>
    /\ ~s_enabled
    /\ s_logPaused
    /\ s_minLevel = LOG_LEVEL_ERROR
    /\ Len(uart) = 14
    /\ \A k \in 1 .. 14 : C27_IsResponse(uart[k])

\* ---------------------------------------------------- spacing of invocations
\* C29: the period is a minimum spacing: when a pass invokes a task of
\* period > 0 that has been invoked before (since its registration), the
\* real time between the reading of the earlier invocation and the reading
\* of this pass, if below 2^32 ms, is at least the period.
C29_MinimumSpacing ==
    InPass =>
        \A d \in RanDescs :
            (period_ms(d) # U(0) /\ runs[d] = 2 /\ AgeBelowWrap(gap[d])) =>
                AgeGe(gap[d], period_ms(d))

\* the second pass has invoked the heartbeat task again, 500 ms after the
\* reading of its first invocation
C29_Witness ==
    /\ LoopDone
    /\ passes = 2
    /\ "s_heartbeatTask" \in RanDescs
    /\ runs["s_heartbeatTask"] = 2
    /\ gap["s_heartbeatTask"] = <<0, 0, 500>>

\* the clock shows a reading at which a pass would find d due
C30_DueNow(d) == Ge32(Sub32(tick, lastRun_ms[d]), period_ms(d))

\* C30: a task found due is stamped with the reading of the pass, not with
\* the clock at the time its body runs or returns, also when the clock has
\* advanced since the pass read it; so the time the pass and the body take
\* counts towards the next period: between passes a task that has run is due
\* exactly when the real time since the reading of the pass that ran it
\* (below 2^32 ms) has reached its period.
C30_StampedWithPassReading ==
    /\ InPass => \A d \in RanDescs : lastRun_ms[d] = now_ms
    /\ pc = "main" =>
          \A d \in Registered :
              (runs[d] >= 1 /\ AgeBelowWrap(age[d])) =>
                  (C30_DueNow(d) <=> AgeGe(age[d], period_ms(d)))

\* the heartbeat task has been run by a pass that read the clock at 500; the
\* clock has advanced by 500 ms since that reading, while the pass was still
\* in progress, and the stamp is the reading
C30_Witness ==
    /\ pc = "run"
    /\ "s_heartbeatTask" \in RanDescs
    /\ now_ms = U(500)
    /\ tick = U(1000)
    /\ passAge = <<0, 0, 500>>
    /\ lastRun_ms["s_heartbeatTask"] = U(500)
    /\ age["s_heartbeatTask"] = <<0, 0, 500>>

\* ---------------------------------------------------- determinism
\* C28: two runs that start from the same registry (same tasks, periods,
\* lastRun_ms values and registration order) and whose passes read the same
\* clock readings invoke the same slots in the same order in every pass and
\* leave the same lastRun_ms values after it, whatever the LED, the power
\* manager and the clock between the readings do.
C28_RunOnceDeterministic ==
    (runLog.phase = "second" /\ runLog.same /\ LoopDone) =>
        /\ passes <= Len(runLog.passes)
        /\ ran = runLog.passes[passes][2]
        /\ lastRun_ms = runLog.passes[passes][3]

\* the second pass of a second run has read the reading of the first run's
\* second pass, 500, and invoked the same slots, while the power manager
\* has counted one idle cycle more than in the first run
C28_Witness ==
    /\ runLog.phase = "second"
    /\ runLog.same
    /\ LoopDone
    /\ passes = 2
    /\ now_ms = U(500)
    /\ ran = <<0, 1, 2>>
    /\ ran = runLog.passes[2][2]
    /\ s_idleCycles = U(2)

\* ---------------------------------------------------- missed periods
\* twice the period of d
C31_TwoPeriods(d) == Add32(period_ms(d), period_ms(d))

\* the recorded pass rec ran d after a real gap of two periods or more
C31_Absorbed(rec, d) ==
    /\ \E k \in 1 .. Len(rec[2]) : s_tasks[rec[2][k]] = d
    /\ AgeBelowWrap(rec[4][d])
    /\ AgeGe(rec[4][d], C31_TwoPeriods(d))

\* C31: missed periods are absorbed. A pass that begins two periods or more
\* (and less than 2^32 ms) after the reading a task of period > 0 was last
\* stamped with invokes the task exactly once and stamps it with its own
\* reading, not with the old stamp plus one period; the next pass then
\* measures from that reading: it invokes the task exactly when a full
\* period has elapsed since.
C31_MissedPeriodsAbsorbed ==
    LoopDone =>
        \A d \in Registered :
            period_ms(d) # U(0) =>
                /\ (AgeBelowWrap(gap[d]) /\ AgeGe(gap[d], C31_TwoPeriods(d))) =>
                      /\ Cardinality({k \in 1 .. Len(ran) : s_tasks[ran[k]] = d}) = 1
                      /\ lastRun_ms[d] = now_ms
                      /\ lastRun_ms[d] # Add32(snap[d], period_ms(d))
                /\ (/\ runLog.phase = "first"
                    /\ passes >= 2
                    /\ Len(runLog.passes) = passes - 1
                    /\ C31_Absorbed(runLog.passes[passes - 1], d)
                    /\ AgeBelowWrap(gap[d])) =>
                      /\ snap[d] = runLog.passes[passes - 1][1]
                      /\ (d \in RanDescs <=> AgeGe(gap[d], period_ms(d)))

\* the first pass ran the heartbeat task 1000 ms (two periods) after its
\* registration and stamped it 1000; the second pass, 499 ms later, has
\* examined every slot and not run it
C31_Witness ==
    /\ LoopDone
    /\ passes = 2
    /\ Len(runLog.passes) = 1
    /\ C31_Absorbed(runLog.passes[1], "s_heartbeatTask")
    /\ runLog.passes[1][1] = U(1000)
    /\ runLog.passes[1][4]["s_heartbeatTask"] = <<0, 0, 1000>>
    /\ now_ms = U(1499)
    /\ lastRun_ms["s_heartbeatTask"] = U(1000)
    /\ "s_heartbeatTask" \notin RanDescs

\* ---------------------------------------------------- a pause cancelled
\* the commands that set the configuration outright
C32_CancelLines == {L_log_off, L_log_error, L_LOG_WARN_UP, L_log_info, L_LOG_DEBUG_UP}

\* the enabled flag and the level such a command sets
C32_Sets(line) ==
    IF line = L_log_off THEN <<FALSE, s_minLevel>>
    ELSE <<TRUE, LogArgLevel(LogArg[line])>>

\* C32: log off or a log level command issued while a pause is in force
\* cancels the pause: the pause flag is cleared and the configuration is the
\* one the command names. The saved snapshot is not applied afterwards:
\* while no pause is in force the enabled flag and the level change only by
\* such a command or by an accepted log pause, a log resume answers 'not
\* paused' and leaves them alone, and an accepted log pause saves the
\* configuration then in effect, so that the snapshot held during a pause
\* is always that of the pause in force.
C32_CancelEndsPause ==
    /\ [][ \A line \in C32_CancelLines :
             (call' = <<"CLI_HandleLine", line>> /\ s_logPaused /\
              CLI_HandleLine(line)) =>
               /\ ~s_logPaused'
               /\ pausedCfg' = CancelledCfg
               /\ <<s_enabled', s_minLevel'>> = C32_Sets(line) ]_vars
    /\ [][ (~s_logPaused /\ <<s_enabled', s_minLevel'>> # <<s_enabled, s_minLevel>>) =>
               \E line \in C32_CancelLines \cup C18_PauseLines :
                   /\ call' = <<"CLI_HandleLine", line>>
                   /\ line \in C32_CancelLines =>
                          <<s_enabled', s_minLevel'>> = C32_Sets(line) ]_vars
    /\ [][ (call' = <<"CLI_HandleLine", L_log_resume>> /\ ~s_logPaused /\
            CLI_HandleLine(L_log_resume)) =>
               /\ uart' = CLI_Print("\r\nTask logging is not paused.\r\n", <<>>)
               /\ UNCHANGED <<s_enabled, s_minLevel, s_logPaused>> ]_vars
    /\ [][ \A line \in C18_PauseLines :
             (call' = <<"CLI_HandleLine", line>> /\ ~s_logPaused /\
              CLI_HandleLine(line)) =>
               /\ s_logPaused'
               /\ s_prevLogEnabled' = s_enabled
               /\ s_prevLogLevel' = s_minLevel ]_vars
    /\ [](s_logPaused => <<s_prevLogEnabled, s_prevLogLevel>> = pausedCfg)

\* log error has just ended a pause taken with logging enabled at Debug:
\* logging is on at Error, the snapshot is still in the saved variables
C32_Witness ==
    /\ call = <<"CLI_HandleLine", L_log_error>>
    /\ pausedCfg = CancelledCfg
    /\ ~s_logPaused
    /\ s_enabled
    /\ s_minLevel = LOG_LEVEL_ERROR
    /\ s_prevLogEnabled
    /\ s_prevLogLevel = LOG_LEVEL_DEBUG

\* ---------------------------------------------------- the idle-cycle counter
\* uint32_t comparison a > b
C34_Gt32(a, b) == Ge32(a, b) /\ a # b

\* C34: every PowerManager_Update that applies no transition leaves the
\* idle-cycle counter strictly greater than it found it, every Update that
\* applies a transition leaves it 0, and PowerManager_RequestMode leaves it
\* as it is (so the counter increases from call to call over any run of
\* Updates without a transition).
C34_IdleCyclesIncrease ==
    /\ [][ (call' = <<"PowerManager_Update">> /\ PowerManager_Update) =>
               IF s_requestedMode # s_currentMode
               THEN s_idleCycles' = U(0)
               ELSE C34_Gt32(s_idleCycles', s_idleCycles) ]_vars
    /\ [][ \A mode \in PowerMode_t :
             (call' = <<"PowerManager_RequestMode", mode>> /\
              PowerManager_RequestMode(mode)) =>
               s_idleCycles' = s_idleCycles ]_vars

\* ---------------------------------------------------- erasing
\* C38: a backspace or delete byte removes exactly the last buffered
\* character (the index steps back by one, the byte it then points at is
\* the terminator, every other byte of the buffer stays) and transmits the
\* erase sequence; on an empty buffer it changes nothing and transmits
\* nothing. For every buffer of fewer than 63 characters and every printable
\* byte, storing the byte and then erasing gives back the buffer and the
\* write index as they were.
C38_EraseUndoesStore ==
    /\ [](s_lineIndex < CLI_MAX_LINE_LENGTH - 1 =>
            \A ch \in 32 .. 126 :
                LET stored == CLI_Store(s_lineBuffer, s_lineIndex, ch)
                IN  /\ stored[2] = s_lineIndex + 1
                    /\ stored[1][s_lineIndex] = Chr(ch)
                    /\ CLI_Erase(stored[1], stored[2]) = <<s_lineBuffer, s_lineIndex>>)
    /\ [][ (Len(rx) > 0 /\ Head(rx) \in {BS, DEL} /\
            call' = <<"CLI_Process", Head(rx), <<>>>> /\ CLI_Process) =>
               /\ IF s_lineIndex > 0
                  THEN /\ s_lineIndex' = s_lineIndex - 1
                       /\ CLI_Line' = SubSeq(CLI_Line, 1, s_lineIndex - 1)
                       /\ \A i \in 0 .. CLI_MAX_LINE_LENGTH - 1 :
                             s_lineBuffer'[i] = IF i = s_lineIndex - 1 THEN NUL
                                                ELSE s_lineBuffer[i]
                       /\ uart' = CLI_SendString("\\b \\b")
                  ELSE /\ UNCHANGED <<s_lineBuffer, s_lineIndex>>
                       /\ uart' = <<>>
               /\ UNCHANGED <<logVars, powerVars, s_logPaused>> ]_vars

\* "stax" has been typed and the backspace has taken the x away again: the
\* buffer holds "sta", as before the x
C38_Witness ==
    /\ call = <<"CLI_Process", BS, <<>>>>
    /\ uart = CLI_SendString("\\b \\b")
    /\ s_lineIndex = 3
    /\ CLI_Line = <<"s", "t", "a">>
    /\ s_lineBuffer[3] = NUL
    /\ Head(rx) = Ord("t")

\* ---------------------------------------------------- silence while paused
\* the call just made transmitted no log line
C33_NoLogLine == \A k \in 1 .. Len(uart) : uart[k][1] # "LOG"

\* C33: in the running application, under every sequence of commands typed
\* between and during scheduler passes, the logger is disabled whenever the
\* pause flag is set, and no step made while the flag is set (a task run by
\* the pass, the pass itself, a command that leaves the flag set) transmits
\* a log line; the flag is cleared only by a command.
C33_PausedIsSilent ==
    /\ [](s_logPaused => ~s_enabled /\ C33_NoLogLine)
    /\ [][ s_logPaused /\ ~s_logPaused' =>
             /\ call'[1] = "CLI_Process"
             /\ call'[3] # <<>>
             /\ CLI_Normalize(call'[3][1]) \in
                   {L_log_resume, L_log_off, CLI_Normalize(L_LOG_DEBUG_UP)} ]_vars

\* logging at level DEBUG was paused in an earlier pass; in this pass the
\* heartbeat and the sampling task have run and nothing was transmitted
C33_Witness ==
    /\ s_logPaused
    /\ pausedCfg = <<TRUE, LOG_LEVEL_DEBUG>>
    /\ pc = "run"
    /\ idx = 2
    /\ ran = <<0, 1>>
    /\ reads = 1
    /\ uart = <<>>

\* ---------------------------------------------------- a requested mode waits
\* the slot the pass is at holds the descriptor d, and d is due
C37_AtDue(d) ==
    /\ pc = "run"
    /\ idx < s_taskCount
    /\ s_tasks[SlotAt(idx)] = d
    /\ IsDue(d)

\* the pass has found the descriptor d due and is about to call its function
C37_Calls(d) ==
    /\ pc = "call"
    /\ s_tasks[SlotAt(idx)] = d

\* the step is the dispatch of a line that reads as line
C37_Dispatches(line) ==
    /\ pc = "cli"
    /\ Len(rx') = Len(rx) - 1
    /\ call'[1] = "CLI_Process"
    /\ call'[3] # <<>>
    /\ CLI_Normalize(call'[3][1]) = line

\* C37: in the application with the default registration order, the
\* requested mode changes only when the CLI task dispatches a command, which
\* happens after the pass has been at the slot of the PowerManager task;
\* the current mode changes only at the run of the PowerManager task, to the
\* requested mode, in a pass in which the CLI task has not run. While a
\* request is pending the SensorSample task samples with the period of the
\* current mode and logs the current mode, and status prints the current
\* mode and its period.
C37_ModeWaitsForLaterPass ==
    /\ [][ s_requestedMode' # s_requestedMode =>
             /\ pc = "cli"
             /\ call'[1] = "CLI_Process" /\ call'[3] # <<>>
             /\ "s_cliTask" \in RanDescs
             /\ \A i \in 0 .. s_taskCount - 1 :
                   s_tasks[i] = "s_powerTask" => i < idx
             /\ s_currentMode' = s_currentMode ]_vars
    /\ [][ s_currentMode' # s_currentMode =>
             /\ C37_Calls("s_powerTask")
             /\ s_currentMode' = s_requestedMode
             /\ "s_cliTask" \notin RanDescs ]_vars
    /\ [][ (C37_Calls("s_sensorTask") /\ idx' = idx + 1 /\
            s_requestedMode # s_currentMode) =>
             /\ reads' = IF /\ SamplePeriod(s_currentMode) # U(0)
                            /\ Ge32(Sub32(tick, lastSampleTick_ms),
                                    SamplePeriod(s_currentMode))
                         THEN 1 ELSE 0
             /\ \A k \in 1 .. Len(uart') :
                   (uart'[k][1] = "LOG" /\ uart'[k][3] = LOG_LEVEL_INFO) =>
                       uart'[k][5] = <<tick, s_currentMode>> ]_vars
    /\ [][ (C37_Dispatches(L_status) /\ s_requestedMode # s_currentMode) =>
             /\ <<uart'[5]>> = CLI_Print("  PowerMode: %d (0=ACTIVE,1=IDLE,2=SLEEP,3=STOP)\r\n",
                                     <<s_currentMode>>)
             /\ <<uart'[6]>> = CLI_Print("  Sensor sample period: %lu ms\r\n",
                                     <<SamplePeriod(s_currentMode)>>) ]_vars

\* pmode idle was dispatched in an earlier pass and is still pending; in
\* this pass the SensorSample task has sampled at the period of Active and
\* logged mode Active, and the PowerManager task is about to run
C37_Witness ==
    /\ C37_AtDue("s_powerTask")
    /\ ran = <<0, 1>>
    /\ s_requestedMode = POWER_MODE_IDLE
    /\ s_currentMode = POWER_MODE_ACTIVE
    /\ reads = 1
    /\ lastSampleTick_ms = U(2000)
    /\ \E k \in 1 .. Len(uart) :
          /\ uart[k][1] = "LOG"
          /\ uart[k][4] = "SensorSample: value=%.2f C, timestamp=%lu ms, mode=%d"
          /\ uart[k][5] = <<U(2000), POWER_MODE_ACTIVE>>

\* status is dispatched while pmode idle is pending
C37_StatusWhilePending ==
    /\ pc = "cli"
    /\ call = <<"CLI_Process", CR, <<L_status>>>>
    /\ s_requestedMode = POWER_MODE_IDLE
    /\ s_currentMode = POWER_MODE_ACTIVE

\* ---------------------------------------------------- the receive loop
\* C39: an invocation of CLI_Process by the CLI task takes the pending bytes
\* oldest first, one per iteration; a printable byte is appended to the
\* line while there is room, and a terminator after a non-empty line
\* dispatches that line in the same iteration, before any later byte is
\* taken, and empties the line. The invocation returns only when no byte is
\* pending, and when no byte is pending it takes no further iteration. With
\* the finite input pending at the call, the invocation returns to the pass.
C39_ConsumesAllAndReturns ==
    /\ [][ (pc = "cli" /\ rx' # rx) =>
             /\ rx # <<>>
             /\ rx' = Tail(rx)
             /\ pc' = "cli"
             /\ call'[1] = "CLI_Process" /\ call'[2] = Head(rx)
             /\ IF Head(rx) \in {CR, LF}
                THEN /\ call'[3] = IF s_lineIndex > 0 THEN <<CLI_Line>> ELSE <<>>
                     /\ CLI_Line' = <<>>
                ELSE /\ call'[3] = <<>>
                     /\ (CLI_IsPrintable(Head(rx)) /\ s_lineIndex < CLI_Capacity) =>
                            CLI_Line' = Append(CLI_Line, Chr(Head(rx))) ]_vars
    /\ [][ (pc = "cli" /\ pc' # "cli") =>
             /\ rx = <<>>
             /\ pc' = "run"
             /\ UNCHANGED <<idx, rx, s_lineBuffer, s_lineIndex, logVars, powerVars>> ]_vars
    /\ [][ (pc = "cli" /\ rx = <<>>) => (pc' = "run" \/ tick' # tick) ]_vars
    /\ ((pc = "cli") ~> (pc = "run"))

\* the first invocation of the CLI task found two lines pending, "LOG DEBUG"
\* and "pmode idle": it has executed both and returned to the pass
C39_Witness ==
    /\ passes = 1
    /\ pc = "run"
    /\ idx = 4
    /\ ran = <<0, 2, 3>>
    /\ rx = <<>>
    /\ call = <<"CLI_Process", CR, <<L_pmode_idle>>>>
    /\ s_enabled /\ s_minLevel = LOG_LEVEL_DEBUG
    /\ s_requestedMode = POWER_MODE_IDLE
    /\ s_currentMode = POWER_MODE_ACTIVE
    /\ uart = <<>>

\* ---------------------------------------------------- a request is applied
\* C35: in the main loop that runs for ever, if from some point on the
\* requested mode is m for good (the last pmode command asked for m), then
\* from some point on the current mode is m for good.
C35_RequestEventuallyApplied ==
    \A m \in PowerMode_t :
        <>[](s_requestedMode = m) => <>[](s_currentMode = m)

\* the PowerManager task has just applied the Idle mode a command asked for
C35_Witness ==
    /\ pc = "run"
    /\ idx = 3
    /\ ran # <<>>
    /\ ran[Len(ran)] = 2
    /\ s_currentMode = POWER_MODE_IDLE
    /\ s_requestedMode = POWER_MODE_IDLE
    /\ s_idleCycles = U(0)
    /\ \E k \in 1 .. Len(regLog) : regLog[k] = "s_powerTask"

\* ---------------------------------------------------- no starvation
\* the slot the pass has just left holds d, and d was invoked
C36_Invoked(d) ==
    /\ pc \in {"run", "cli"}
    /\ idx > 0
    /\ s_tasks[SlotAt(idx - 1)] = d
    /\ ran # <<>>
    /\ ran[Len(ran)] = SlotAt(idx - 1)

\* C36: in the main loop that runs for ever, with any of the registries,
\* every registered task with period > 0 is invoked again and again.
C36_NoStarvation ==
    \A d \in Descriptors :
        []<>(d \in Registered /\ period_ms(d) # U(0) => C36_Invoked(d))

\* the last of four registered tasks is invoked in a pass in which the
\* three before it were invoked, and not for the first time
C36_Witness ==
    /\ C36_Invoked("s_heartbeatTask")
    /\ ran = <<0, 1, 2, 3>>
    /\ runs["s_heartbeatTask"] = 2
    /\ runs["s_cliTask"] = 2

====
